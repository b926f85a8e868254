------------------------------- MODULE MCSend -------------------------------
(***************************************************************************)
(* Small instances of Send.  Through one fid a program sends any of the    *)
(* letters, in pieces of three bytes; through another, of the same file or *)
(* not, a second program sends a short one.  The longest letter is longer  *)
(* than the buffer.  Two bytes tell what kind of file it is.               *)
(***************************************************************************)
EXTENDS Send, TLC

Text(file, data, text) ==
  [file |-> file, style |-> "text", caption |-> <<>>, data |-> data, text |-> text]
File(data) == [file |-> "send", style |-> "file", caption |-> <<>>, data |-> data, text |-> <<>>]
Attach(style, caption, data) ==
  [file |-> "send", style |-> style, caption |-> caption, data |-> data, text |-> <<>>]

MCLetters ==
  ("f1" :> {Text("send", <<"x", "n", "x", "n">>, <<"x", "n", "x">>),
            Text("send", <<"x", "x", "x", "x", "n">>, <<"x", "x", "x", "x">>),
            Text("send", <<"n">>, <<>>),
            File(<<"x", "b", "n", "x">>),
            File(<<"%", "x">>),
            File(<<"x", "x">>),
            Text("send", <<"%", "x", "n">>, <<"%", "x">>),
            Text("send", <<" ", "<", "n">>, <<" ", "<">>),
            Text("send", <<"x", "%", "0">>, <<"x", "%", "0">>),
            Text("reply", <<"7", " ", " ", "x", "r", "n">>, <<"x">>),
            Text("reply", <<"x", " ", "x">>, <<"x">>),
            Text("pin", <<" ", "7", "r", "n">>, <<>>),
            Text("react", <<"7", "n", "x">>, <<"x">>),
            Text("react", <<"7", " ", "x", " ", "x">>, <<"x">>),
            Text("typing", <<"n">>, <<>>),
            Attach("lf", <<"x">>, <<"b", "n", "n", "b">>),
            Attach("lf", <<>>, <<"n", "b">>),
            Attach("lf", <<"x">>, <<"b", "r", "n", "r", "n", "b">>),
            Attach("crlf", <<"x">>, <<"n", "n", "b">>),
            Attach("crlf", <<>>, <<"r", "n", "r", "n">>),
            Attach("crlf", <<"x", "x">>, <<"b", "b", "b", "b", "b", "b", "b">>)}
   @@ "f2" :> {Text("send", <<"x", "n">>, <<"x">>)})

ASSUME MCLettersDocumented == LettersDocumented
=============================================================================
