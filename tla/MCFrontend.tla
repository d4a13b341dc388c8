----------------------------- MODULE MCFrontend -----------------------------
(* Jobs for model checking Frontend. *)
EXTENDS Frontend

CONSTANTS p1, p2

Chars == {NUL, Eof, "\n", "y", "n", "e", "s", "a", "b"}

Base == [password |-> FALSE, file |-> TRUE, aligned |-> TRUE, stdin_fails |-> FALSE,
         answer |-> <<"n">>, typed |-> << >>, enc |-> <<"a">>, args |-> <<1, -2>>,
         print_size |-> 3, garbage |-> <<NUL, NUL, NUL>>]

\* Setting a password: every answer, password and stack content, alone or
\* in front of a program.
Answers == {<< >>, <<"n">>, <<"y">>, <<"y", "s">>, <<"y", "a", "s">>}
Passwords == {<<"a">>, <<"a", "b">>, <<"a", "b", "a", "b">>, <<"a", Eof, "b">>,
              <<"a", NUL, "b">>}
Garbage == {<<NUL, NUL, NUL>>, <<"b", "b", "b">>}
PasswordJobs ==
  { [Base EXCEPT !.password = TRUE, !.answer = a, !.typed = t, !.garbage = g,
                 !.stdin_fails = f, !.file = e] :
      a \in Answers, t \in Passwords, g \in Garbage, f \in BOOLEAN, e \in BOOLEAN }

\* Executions: arguments at the limits of their range (words are 0 .. 15),
\* print buffers of 0, 2, 3 and 16 words (16 is 0 modulo SizeMod).
RunJobs ==
  { [Base EXCEPT !.args = x, !.print_size = n] :
      x \in {<< >>, <<7, -8>>, <<8>>, <<15>>, <<16>>, <<-9>>, <<1, 2>>},
      n \in {0, 2, 3, 16} }
  \cup { [Base EXCEPT !.aligned = FALSE], [Base EXCEPT !.file = FALSE],
         [Base EXCEPT !.enc = <<"b">>] }

AllJobsOf ==
  [p \in Proc |-> IF p = p1 THEN PasswordJobs \cup RunJobs
                  ELSE {Base, [Base EXCEPT !.password = TRUE, !.answer = <<"y">>,
                                           !.typed = <<"a">>]}]
=============================================================================
