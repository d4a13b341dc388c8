----------------------------- MODULE FramesProofs -----------------------------
(***************************************************************************)
(* Code that passes the test of Frames runs under control, for every word  *)
(* size, code and argument vector and for segments of any size.            *)
(*                                                                         *)
(* The test knows the layout of one frame and the size of the one below.   *)
(* The invariant puts the call stack together from such frames: a sequence *)
(* of them, from that of the entry code to the one of the function that is *)
(* executed, in which each return address lies where its callee expects it *)
(* and leads to a place the test has visited in the caller.                *)
(***************************************************************************)
EXTENDS Frames, TLAPS

\* Segments have at least one line, as create_runtime_ctx makes them.
Sizes == CallLines \in Nat \ {0} /\ OverrunLines \in Nat

\* The test has visited the places R of the code.
Tested(R) ==
  /\ code_seg \in Seq(WordJ)
  /\ Len(code_seg) <= WordMod
  /\ Entry \in R
  /\ R \subseteq Place
  /\ \A p \in R : Safe(code_seg, p) /\ Succ(code_seg, p) \subseteq R

\* The frames of the functions that have been called and not returned from.
\* base is the word of the return address, place where the function is, or
\* where it will go on when the functions it called have returned.
Chain(fs, R, at, top, words) ==
  /\ fs \in Seq([base : Nat, place : R])
  /\ Len(fs) > 0
  /\ fs[1].base = 0 /\ fs[1].place.below = NoCaller
  /\ fs[Len(fs)].place.at = at
  /\ fs[Len(fs)].base + fs[Len(fs)].place.depth = top
  /\ \A i \in 1 .. Len(fs) - 1 :
       /\ fs[i + 1].base = fs[i].base + fs[i].place.depth + 1
       /\ fs[i + 1].place.below = fs[i].place.depth
       /\ words[fs[i + 1].base] = fs[i].place.at
  /\ \A i, j \in 1 .. Len(fs) : i < j => fs[i].base < fs[j].base

Chained(R, at, top, words) == \E fs : Chain(fs, R, at, top, words)

OnTrack(R) ==
  /\ cp \in CallSlots
  /\ call = [i \in CallSlots |-> call[i]]
  /\ \E fs : Chain(fs, R, ip, cp, call)

\* Control is where the test has been, or the program has come to an end.
Good(R) == ~ControlLost /\ (status = "running" => OnTrack(R))

FramesInv ==
  /\ code_seg \in Seq(WordJ)
  /\ WellFramed(code_seg) => Good(Reached(code_seg))

-----------------------------------------------------------------------------
(* Frames.                                                                 *)

\* The elements of a sequence are in the set it is over.
LEMMA SeqElement ==
  ASSUME NEW S, NEW s \in Seq(S)
  PROVE  Len(s) \in Nat /\ \A i \in 1 .. Len(s) : s[i] \in S
  OBVIOUS

\* What makes a sequence of frames a chain, with its length by name.
LEMMA MakeChain ==
  ASSUME NEW R, NEW gs, NEW m \in Nat, m > 0, NEW at, NEW top, NEW words,
         gs \in Seq([base : Nat, place : R]), Len(gs) = m,
         gs[1].base = 0, gs[1].place.below = NoCaller,
         gs[m].place.at = at,
         gs[m].base + gs[m].place.depth = top,
         \A i \in 1 .. m - 1 : /\ gs[i + 1].base = gs[i].base + gs[i].place.depth + 1
                               /\ gs[i + 1].place.below = gs[i].place.depth
                               /\ words[gs[i + 1].base] = gs[i].place.at,
         \A i, j \in 1 .. m : i < j => gs[i].base < gs[j].base
  PROVE  Chain(gs, R, at, top, words)
  BY ZenonT(30) DEF Chain

\* A function moves within its frame, or changes the size of it, and leaves
\* the return addresses alone.
LEMMA ChainMove ==
  ASSUME NEW R, R \subseteq Place, NEW fs, NEW at, NEW top, NEW words, NEW after,
         Chain(fs, R, at, top, words),
         NEW q, q \in R, q.below = fs[Len(fs)].place.below,
         NEW reach, reach = fs[Len(fs)].base + q.depth,
         \A i \in 2 .. Len(fs) : after[fs[i].base] = words[fs[i].base]
  PROVE  \E gs : Chain(gs, R, q.at, reach, after) /\ gs[Len(gs)].place = q
<1> DEFINE n == Len(fs)
           F == [base : Nat, place : R]
           new == [base |-> fs[n].base, place |-> q]
           gs == [fs EXCEPT ![n] = new]
<1>1. fs \in Seq(F) /\ n \in Nat /\ n > 0
  BY DEF Chain
<1>2. \A i \in 1 .. n : fs[i] \in F
  <2> HIDE DEF F
  <2> QED
    BY <1>1, SeqElement
<1>3. fs[n].base \in Nat /\ n \in 1 .. n
  BY <1>1, <1>2
<1>4. new \in F
  BY <1>3
<1>5. gs \in Seq(F) /\ Len(gs) = n
  BY <1>1, <1>3, <1>4
<1>6. /\ gs[n] = new
      /\ \A i \in 1 .. n : i # n => gs[i] = fs[i]
  BY <1>1, <1>3
<1>7. \A i \in 1 .. n : gs[i].base = fs[i].base /\ gs[i].place.below = fs[i].place.below
  BY <1>6
<1>8. \A i \in 1 .. n - 1 : i \in 1 .. n /\ i + 1 \in 2 .. n /\ i + 1 \in 1 .. n /\ i # n
  BY <1>1
<1> HIDE DEF new
<1>9. \A i \in 1 .. n - 1 : gs[i].place = fs[i].place
  BY <1>6, <1>8
<1> HIDE DEF gs
<1>10. ASSUME NEW i \in 1 .. n - 1
       PROVE  /\ gs[i + 1].base = gs[i].base + gs[i].place.depth + 1
              /\ gs[i + 1].place.below = gs[i].place.depth
              /\ after[gs[i + 1].base] = gs[i].place.at
  <2>1. /\ fs[i + 1].base = fs[i].base + fs[i].place.depth + 1
        /\ fs[i + 1].place.below = fs[i].place.depth
        /\ words[fs[i + 1].base] = fs[i].place.at
    BY DEF Chain
  <2>2. after[fs[i + 1].base] = words[fs[i + 1].base]
    BY <1>8
  <2> QED
    BY <1>7, <1>8, <1>9, <2>1, <2>2
<1>11. \A i, j \in 1 .. n : i < j => gs[i].base < gs[j].base
  <2>1. \A i, j \in 1 .. n : i < j => fs[i].base < fs[j].base
    BY DEF Chain
  <2> QED
    BY <1>7, <2>1
<1>12. gs[1].base = 0 /\ gs[1].place.below = NoCaller
  <2>1. fs[1].base = 0 /\ fs[1].place.below = NoCaller
    BY DEF Chain
  <2>2. 1 \in 1 .. n
    BY <1>1
  <2> QED
    BY <1>7, <2>1, <2>2
<1>13. gs[n].place = q /\ gs[n].base = fs[n].base
  BY <1>6 DEF new
<1>14. gs[n].place.at = q.at /\ gs[n].base + gs[n].place.depth = reach
  BY <1>13
<1>15. Chain(gs, R, q.at, reach, after)
  <2>1. \A i \in 1 .. n - 1 :
          /\ gs[i + 1].base = gs[i].base + gs[i].place.depth + 1
          /\ gs[i + 1].place.below = gs[i].place.depth
          /\ after[gs[i + 1].base] = gs[i].place.at
    BY <1>10
  <2> HIDE DEF n
  <2> QED
    BY <1>1, <1>5, <1>11, <1>12, <1>14, <2>1, MakeChain
<1> QED
  BY <1>5, <1>13, <1>15

\* The word d below the top is in one of the two frames on top, and no return
\* address.
LEMMA NoReturnAddress ==
  ASSUME NEW R, R \subseteq Place, NEW fs, NEW at, NEW top, NEW words,
         Chain(fs, R, at, top, words),
         NEW d \in Nat, InFrame(fs[Len(fs)].place, d)
  PROVE  /\ top - d \in Nat
         /\ \A i \in 2 .. Len(fs) : fs[i].base # top - d
<1> DEFINE n == Len(fs)
           p == fs[n].place
<1>1. fs \in Seq([base : Nat, place : R]) /\ n \in Nat /\ n > 0
  BY DEF Chain
<1>2. \A i \in 1 .. n : fs[i].base \in Nat /\ fs[i].place \in Place
  <2>1. \A i \in 1 .. n : fs[i] \in [base : Nat, place : R]
    BY <1>1, SeqElement
  <2> QED
    BY <2>1
<1>3. \A i \in 1 .. n : i # n => fs[i].base < fs[n].base
  <2>1. \A i, j \in 1 .. n : i < j => fs[i].base < fs[j].base
    BY DEF Chain
  <2> QED
    BY <1>1, <2>1
<1>4. n \in 1 .. n /\ p \in Place /\ fs[n].base \in Nat
  BY <1>1, <1>2
<1>5. p.depth \in Nat /\ p.below \in Nat \cup {NoCaller}
  BY <1>4 DEF Place
<1>6. top = fs[n].base + p.depth
  BY DEF Chain
<1> HIDE DEF p
<1>7. CASE d < p.depth
  <2>1. top - d \in Nat /\ top - d > fs[n].base
    BY <1>4, <1>5, <1>6, <1>7
  <2> QED
    <3>1. \A i \in 2 .. n : i \in 1 .. n
      BY <1>1
    <3>2. \A i \in 1 .. n : fs[i].base <= fs[n].base
      BY <1>2, <1>3, <1>4
    <3>3. \A i \in 1 .. n : fs[i].base # top - d
      BY <1>2, <1>4, <2>1, <3>2
    <3> QED
      BY <2>1, <3>1, <3>3
<1>8. CASE d > p.depth /\ d - p.depth <= p.below
  <2>1. p.below # NoCaller /\ p.below \in Nat /\ p.below >= 1
    BY <1>5, <1>8 DEF NoCaller
  <2>2. n # 1
    BY <2>1 DEF Chain, p
  <2>3. n - 1 \in 1 .. n - 1 /\ n - 1 \in 1 .. n /\ (n - 1) + 1 = n
    <3> HIDE DEF n
    <3>1. n \in Nat /\ n > 0
      BY <1>1
    <3> QED
      BY <2>2, <3>1
  <2>4. /\ fs[n].base = fs[n - 1].base + fs[n - 1].place.depth + 1
        /\ p.below = fs[n - 1].place.depth
    <3>1. /\ fs[(n - 1) + 1].base = fs[n - 1].base + fs[n - 1].place.depth + 1
          /\ fs[(n - 1) + 1].place.below = fs[n - 1].place.depth
      BY <2>3 DEF Chain
    <3> QED
      BY <2>3, <3>1 DEF p
  <2>5. fs[n - 1].base \in Nat
    BY <1>2, <2>3
  <2>6. top - d \in Nat /\ top - d > fs[n - 1].base /\ top - d < fs[n].base
    <3>1. ASSUME NEW b \in Nat, NEW c \in Nat, NEW e \in Nat, NEW w \in Nat,
                 c = b + w + 1, top = c + e, d > e, d - e <= w
          PROVE  top - d \in Nat /\ top - d > b /\ top - d < c
      BY <3>1
    <3> QED
      BY <1>4, <1>5, <1>6, <1>8, <2>1, <2>4, <2>5, <3>1
  <2>7. \A i \in 1 .. n : i < n => fs[i].base <= fs[n - 1].base
    <3>1. \A i, j \in 1 .. n : i < j => fs[i].base < fs[j].base
      BY DEF Chain
    <3>2. ASSUME NEW i \in 1 .. n, i < n PROVE fs[i].base <= fs[n - 1].base
      <4>1. i = n - 1 \/ i < n - 1
        BY <1>1, <3>2
      <4>2. i < n - 1 => fs[i].base < fs[n - 1].base
        BY <2>3, <3>1
      <4>3. fs[i].base \in Nat
        BY <1>2
      <4> QED
        BY <2>5, <4>1, <4>2, <4>3
    <3> QED
      BY <3>2
  <2>8. ASSUME NEW i \in 2 .. n PROVE fs[i].base # top - d
    <3>1. i \in 1 .. n /\ (i = n \/ i < n)
      BY <1>1
    <3>2. fs[i].base \in Nat
      BY <1>2, <3>1
    <3> QED
      BY <1>4, <2>5, <2>6, <2>7, <3>1, <3>2
  <2> QED
    BY <2>6, <2>8
<1> QED
  BY <1>7, <1>8 DEF InFrame, p


\* All return addresses lie below the top, and below the frame on top.
LEMMA ReturnAddressesBelow ==
  ASSUME NEW R, R \subseteq Place, NEW fs, NEW at, NEW top, NEW words,
         Chain(fs, R, at, top, words)
  PROVE  \A i \in 2 .. Len(fs) :
           fs[i].base \in Nat /\ fs[i].base <= fs[Len(fs)].base /\ fs[i].base <= top
<1> DEFINE n == Len(fs)
<1>1. fs \in Seq([base : Nat, place : R]) /\ n \in Nat /\ n > 0
  BY DEF Chain
<1>2. \A i \in 1 .. n : fs[i].base \in Nat /\ fs[i].place \in Place
  <2>1. \A i \in 1 .. n : fs[i] \in [base : Nat, place : R]
    BY <1>1, SeqElement
  <2> QED
    BY <2>1
<1>3. n \in 1 .. n /\ \A i \in 2 .. n : i \in 1 .. n /\ (i = n \/ i < n)
  BY <1>1
<1>4. \A i, j \in 1 .. n : i < j => fs[i].base < fs[j].base
  BY DEF Chain
<1>5. top = fs[n].base + fs[n].place.depth
  BY DEF Chain
<1>6. fs[n].base \in Nat /\ fs[n].place.depth \in Nat
  BY <1>2, <1>3 DEF Place
<1>7. ASSUME NEW i \in 2 .. n
      PROVE  fs[i].base \in Nat /\ fs[i].base <= fs[n].base
  <2>1. i \in 1 .. n /\ (i = n \/ i < n) /\ n \in 1 .. n
    BY <1>3
  <2>2. fs[i].base \in Nat
    BY <1>2, <2>1
  <2>3. i < n => fs[i].base < fs[n].base
    BY <1>4, <2>1
  <2> QED
    BY <1>6, <2>1, <2>2, <2>3
<1>8. fs[n].base <= top /\ top \in Nat
  BY <1>5, <1>6
<1>9. ASSUME NEW i \in 2 .. n PROVE fs[i].base <= top
  BY <1>6, <1>7, <1>8
<1> QED
  BY <1>7, <1>9

\* A call puts a frame on the chain, above the word with the return address.
LEMMA ChainPush ==
  ASSUME NEW R, R \subseteq Place, NEW fs, NEW at, NEW top, NEW words,
         Chain(fs, R, at, top, words),
         NEW reach, reach = top + 1, words[reach] = at,
         NEW q, q \in R, q.depth = 0, q.below = fs[Len(fs)].place.depth
  PROVE  \E gs : Chain(gs, R, q.at, reach, words)
<1> DEFINE n == Len(fs)
           F == [base : Nat, place : R]
           new == [base |-> reach, place |-> q]
           gs == Append(fs, new)
<1>1. fs \in Seq(F) /\ n \in Nat /\ n > 0
  BY DEF Chain
<1>2. \A i \in 1 .. n : fs[i] \in F
  <2> HIDE DEF F
  <2> QED
    BY <1>1, SeqElement
<1>3. \A i \in 1 .. n : fs[i].base \in Nat /\ fs[i].place \in Place
  BY <1>2
<1>4. n \in 1 .. n /\ fs[n].base \in Nat /\ fs[n].place.depth \in Nat
  BY <1>1, <1>3 DEF Place
<1>5. top = fs[n].base + fs[n].place.depth /\ top \in Nat
  BY <1>4 DEF Chain
<1>6. new \in F
  BY <1>5
<1>7. gs \in Seq(F) /\ Len(gs) = n + 1
  <2> HIDE DEF F, new
  <2> QED
    BY <1>1, <1>6
<1>8. gs[n + 1] = new /\ \A i \in 1 .. n : gs[i] = fs[i]
  <2> HIDE DEF F, new
  <2> QED
    BY <1>1, <1>6
<1>9. new.base = reach /\ new.place = q
  OBVIOUS
<1> HIDE DEF gs, new, F
<1>10. ASSUME NEW i \in 1 .. (n + 1) - 1
       PROVE  /\ gs[i + 1].base = gs[i].base + gs[i].place.depth + 1
              /\ gs[i + 1].place.below = gs[i].place.depth
              /\ words[gs[i + 1].base] = gs[i].place.at
  <2>1. CASE i = n
    <3>1. gs[i] = fs[n] /\ gs[i + 1] = new
      BY <1>4, <1>8, <2>1
    <3>2. fs[n].place.at = at
      BY DEF Chain
    <3> QED
      BY <1>5, <1>9, <3>1, <3>2
  <2>2. CASE i # n
    <3>1. i \in 1 .. n - 1 /\ i \in 1 .. n /\ i + 1 \in 1 .. n
      BY <1>1, <2>2
    <3>2. gs[i] = fs[i] /\ gs[i + 1] = fs[i + 1]
      BY <1>8, <3>1
    <3> QED
      BY <3>1, <3>2 DEF Chain
  <2> QED
    BY <2>1, <2>2
<1>11. ASSUME NEW i \in 1 .. n + 1, NEW j \in 1 .. n + 1, i < j
       PROVE  gs[i].base < gs[j].base
  <2>1. \A k, l \in 1 .. n : k < l => fs[k].base < fs[l].base
    BY DEF Chain
  <2>2. i \in 1 .. n /\ gs[i] = fs[i] /\ fs[i].base \in Nat
    BY <1>1, <1>3, <1>8, <1>11
  <2>3. CASE j = n + 1
    <3>1. fs[i].base <= fs[n].base
      <4>1. i = n \/ i < n
        BY <1>1, <2>2
      <4> QED
        BY <1>4, <2>1, <2>2, <4>1
    <3>2. gs[j].base = reach
      BY <1>8, <1>9, <2>3
    <3>3. fs[n].base < reach /\ reach \in Nat
      BY <1>4, <1>5
    <3> HIDE DEF n
    <3> QED
      BY <1>4, <2>2, <3>1, <3>2, <3>3
  <2>4. CASE j # n + 1
    <3>1. j \in 1 .. n /\ gs[j] = fs[j]
      BY <1>1, <1>8, <2>4
    <3> QED
      BY <1>11, <2>1, <2>2, <3>1
  <2> QED
    BY <2>3, <2>4
<1>12. gs[1].base = 0 /\ gs[1].place.below = NoCaller
  <2>1. fs[1].base = 0 /\ fs[1].place.below = NoCaller
    BY DEF Chain
  <2>2. 1 \in 1 .. n
    BY <1>1
  <2> QED
    BY <1>8, <2>1, <2>2
<1>13. gs[n + 1].place.at = q.at /\ gs[n + 1].base + gs[n + 1].place.depth = reach
  BY <1>5, <1>8, <1>9
<1>14. Chain(gs, R, q.at, reach, words)
  <2>1. n + 1 \in Nat /\ n + 1 > 0
    BY <1>1
  <2>2. gs \in Seq([base : Nat, place : R]) /\ Len(gs) = n + 1
    BY <1>7 DEF F
  <2>3. \A i \in 1 .. (n + 1) - 1 :
          /\ gs[i + 1].base = gs[i].base + gs[i].place.depth + 1
          /\ gs[i + 1].place.below = gs[i].place.depth
          /\ words[gs[i + 1].base] = gs[i].place.at
    BY <1>10
  <2>4. \A i, j \in 1 .. n + 1 : i < j => gs[i].base < gs[j].base
    BY <1>11
  <2> HIDE DEF n
  <2> QED
    BY <1>12, <1>13, <2>1, <2>2, <2>3, <2>4, MakeChain
<1> QED
  BY <1>14

\* A function calls another one: its own frame will be at the place behind the
\* call, and that of the callee comes on top.
LEMMA ChainCall ==
  ASSUME NEW R, R \subseteq Place, NEW fs, NEW at, NEW top, NEW words,
         Chain(fs, R, at, top, words)
  PROVE  \A back \in R, callee \in R : \A reach, after :
           /\ back.below = fs[Len(fs)].place.below
           /\ top = fs[Len(fs)].base + back.depth
           /\ callee.depth = 0 /\ callee.below = back.depth
           /\ reach = top + 1 /\ after[reach] = back.at
           /\ \A i \in 2 .. Len(fs) : after[fs[i].base] = words[fs[i].base]
           => Chained(R, callee.at, reach, after)
<1> SUFFICES ASSUME NEW back \in R, NEW callee \in R, NEW reach, NEW after,
                    back.below = fs[Len(fs)].place.below,
                    top = fs[Len(fs)].base + back.depth,
                    callee.depth = 0, callee.below = back.depth,
                    reach = top + 1, after[reach] = back.at,
                    \A i \in 2 .. Len(fs) : after[fs[i].base] = words[fs[i].base]
             PROVE  Chained(R, callee.at, reach, after)
  OBVIOUS
<1>1. PICK gs : Chain(gs, R, back.at, top, after) /\ gs[Len(gs)].place = back
  BY ChainMove
<1>2. callee.below = gs[Len(gs)].place.depth
  BY <1>1
<1> QED
  BY <1>1, <1>2, ChainPush DEF Chained

\* A function that has given its frame back returns to the place where its
\* caller goes on.
LEMMA ChainPop ==
  ASSUME NEW R, R \subseteq Place, NEW fs, NEW at, NEW top, NEW words, NEW after,
         Chain(fs, R, at, top, words),
         fs[Len(fs)].place.depth = 0, fs[Len(fs)].place.below # NoCaller,
         NEW reach, reach = top - 1, NEW back, back = words[top],
         \A i \in 0 .. reach : after[i] = words[i]
  PROVE  /\ top \in Nat \ {0}
         /\ \E q \in R : back = q.at
         /\ \E gs : Chain(gs, R, back, reach, after)
<1> DEFINE n == Len(fs)
           F == [base : Nat, place : R]
           gs == SubSeq(fs, 1, n - 1)
<1>1. fs \in Seq(F) /\ n \in Nat /\ n > 0
  BY DEF Chain
<1>2. \A i \in 1 .. n : fs[i] \in F
  <2> HIDE DEF F
  <2> QED
    BY <1>1, SeqElement
<1>3. \A i \in 1 .. n : fs[i].base \in Nat /\ fs[i].place \in Place /\ fs[i].place \in R
  BY <1>2
<1>4. n # 1
  BY DEF Chain
<1>5. /\ n - 1 \in 1 .. n - 1 /\ n - 1 \in 1 .. n /\ n \in 1 .. n /\ n - 1 \in Nat
      /\ (n - 1) + 1 = n
  <2> HIDE DEF n
  <2> QED
    BY <1>1, <1>4
<1>6. /\ fs[n].base = fs[n - 1].base + fs[n - 1].place.depth + 1
      /\ words[fs[n].base] = fs[n - 1].place.at
  <2>1. /\ fs[(n - 1) + 1].base = fs[n - 1].base + fs[n - 1].place.depth + 1
        /\ words[fs[(n - 1) + 1].base] = fs[n - 1].place.at
    BY <1>5 DEF Chain
  <2> QED
    BY <1>5, <2>1
<1>7. fs[n].base \in Nat /\ fs[n - 1].base \in Nat /\ fs[n - 1].place.depth \in Nat
  BY <1>3, <1>5 DEF Place
<1>8. top = fs[n].base /\ top \in Nat \ {0}
      /\ fs[n - 1].base + fs[n - 1].place.depth = top - 1
  <2>1. fs[n].base + fs[n].place.depth = top
    BY DEF Chain
  <2> QED
    BY <1>6, <1>7, <2>1
<1>9. gs \in Seq(F) /\ Len(gs) = n - 1 /\ \A i \in 1 .. n - 1 : gs[i] = fs[i]
  <2> HIDE DEF F
  <2> QED
    BY <1>1, <1>5
<1> HIDE DEF gs, F
<1>10. ASSUME NEW i \in 1 .. (n - 1) - 1
       PROVE  /\ gs[i + 1].base = gs[i].base + gs[i].place.depth + 1
              /\ gs[i + 1].place.below = gs[i].place.depth
              /\ after[gs[i + 1].base] = gs[i].place.at
  <2>1. i \in 1 .. n - 1 /\ i + 1 \in 1 .. n - 1 /\ i + 1 \in 1 .. n /\ i + 1 < n
    BY <1>1
  <2>2. gs[i] = fs[i] /\ gs[i + 1] = fs[i + 1]
    BY <1>9, <2>1
  <2>3. /\ fs[i + 1].base = fs[i].base + fs[i].place.depth + 1
        /\ fs[i + 1].place.below = fs[i].place.depth
        /\ words[fs[i + 1].base] = fs[i].place.at
    BY <2>1 DEF Chain
  <2>4. \A k, l \in 1 .. n : k < l => fs[k].base < fs[l].base
    BY DEF Chain
  <2>5. fs[i + 1].base < top /\ fs[i + 1].base \in Nat
    BY <1>3, <1>5, <1>8, <2>1, <2>4
  <2>6. fs[i + 1].base \in 0 .. reach
    BY <1>8, <2>5
  <2> QED
    BY <2>2, <2>3, <2>6
<1>11. \A i, j \in 1 .. n - 1 : i < j => gs[i].base < gs[j].base
  <2>1. \A k, l \in 1 .. n : k < l => fs[k].base < fs[l].base
    BY DEF Chain
  <2>2. \A i \in 1 .. n - 1 : i \in 1 .. n
    BY <1>1
  <2> QED
    BY <1>9, <2>1, <2>2
<1>12. gs[1].base = 0 /\ gs[1].place.below = NoCaller
  <2>1. fs[1].base = 0 /\ fs[1].place.below = NoCaller
    BY DEF Chain
  <2>2. 1 \in 1 .. n - 1
    BY <1>5
  <2> QED
    BY <1>9, <2>1, <2>2
<1>13. gs[n - 1] = fs[n - 1]
  BY <1>5, <1>9
<1>14. back = fs[n - 1].place.at /\ fs[n - 1].place \in R
  BY <1>3, <1>5, <1>6, <1>8
<1>15. gs[n - 1].place.at = back /\ gs[n - 1].base + gs[n - 1].place.depth = reach
  BY <1>8, <1>13, <1>14
<1>16. Chain(gs, R, back, reach, after)
  <2>1. n - 1 \in Nat /\ n - 1 > 0
    BY <1>5
  <2>2. gs \in Seq([base : Nat, place : R]) /\ Len(gs) = n - 1
    BY <1>9 DEF F
  <2>3. \A i \in 1 .. (n - 1) - 1 :
          /\ gs[i + 1].base = gs[i].base + gs[i].place.depth + 1
          /\ gs[i + 1].place.below = gs[i].place.depth
          /\ after[gs[i + 1].base] = gs[i].place.at
    BY <1>10
  <2> HIDE DEF n
  <2> QED
    BY <1>11, <1>12, <1>15, <2>1, <2>2, <2>3, MakeChain
<1> QED
  BY <1>8, <1>14, <1>16

-----------------------------------------------------------------------------
(* Steps of the machine.                                                   *)

\* Where the test goes on behind each kind of instruction.
LEMMA SuccOf ==
  ASSUME NEW words, NEW p
  PROVE  LET op == OpAt(words, p)
             d == OperandAt(words, p)
             S == Succ(words, p)
         IN /\ op \in {INSTR_NOP, INSTR_PRINT} \cup ArithmeticOps => Goto(p, p.at + 1) \in S
            /\ op \in {INSTR_PUSH, INSTR_LOAD, INSTR_STORE, INSTR_ARGLOAD, INSTR_CALL}
                      \cup CompareOps => Goto(p, p.at + 2) \in S
            /\ op \in {INSTR_JMP} \cup CompareOps => Goto(p, d) \in S
            /\ op = INSTR_CALL => [at |-> d, depth |-> 0, below |-> p.depth] \in S
            /\ op = INSTR_PROLOG =>
                 [Goto(p, p.at + 2) EXCEPT !.depth = @ + Displacement(d)] \in S
            /\ op = INSTR_EPILOG =>
                 [Goto(p, p.at + 2) EXCEPT !.depth = @ - Displacement(d)] \in S
<1> DEFINE op == OpAt(words, p)
           d == OperandAt(words, p)
           S == Succ(words, p)
           next == Goto(p, p.at + 2)
<1> USE DEF INSTR_NOP, INSTR_FINISH, INSTR_PUSH, INSTR_PRINT, INSTR_LOAD, INSTR_STORE,
        INSTR_ADD, INSTR_SUB, INSTR_MUL, INSTR_DIV, INSTR_MOD, INSTR_JMP, INSTR_JEQ,
        INSTR_JNE, INSTR_JL, INSTR_JLE, INSTR_JG, INSTR_JGE, INSTR_CALL, INSTR_RET,
        INSTR_PROLOG, INSTR_EPILOG, INSTR_ARGLOAD, ArithmeticOps, CompareOps
<1>1. S = CASE op \in {INSTR_FINISH, INSTR_RET} -> {}
            [] op = INSTR_JMP -> {Goto(p, d)}
            [] op \in CompareOps -> {Goto(p, d), next}
            [] op = INSTR_CALL -> {next, [at |-> d, depth |-> 0, below |-> p.depth]}
            [] op = INSTR_PROLOG -> {[next EXCEPT !.depth = @ + Displacement(d)]}
            [] op = INSTR_EPILOG -> {[next EXCEPT !.depth = @ - Displacement(d)]}
            [] op \in {INSTR_PUSH, INSTR_LOAD, INSTR_STORE, INSTR_ARGLOAD} -> {next}
            [] OTHER -> {Goto(p, p.at + 1)}
  BY DEF Succ
<1> HIDE DEF op, d, S, next
<1>2. op \in {INSTR_NOP, INSTR_PRINT} \cup ArithmeticOps => Goto(p, p.at + 1) \in S
  BY <1>1
<1>3. op \in {INSTR_PUSH, INSTR_LOAD, INSTR_STORE, INSTR_ARGLOAD, INSTR_CALL}
            \cup CompareOps => next \in S
  BY <1>1
<1>4. op \in {INSTR_JMP} \cup CompareOps => Goto(p, d) \in S
  BY <1>1
<1>5. op = INSTR_CALL => [at |-> d, depth |-> 0, below |-> p.depth] \in S
  BY <1>1
<1>6. op = INSTR_PROLOG => [next EXCEPT !.depth = @ + Displacement(d)] \in S
  BY <1>1
<1>7. op = INSTR_EPILOG => [next EXCEPT !.depth = @ - Displacement(d)] \in S
  BY <1>1
<1> QED
  BY <1>2, <1>3, <1>4, <1>5, <1>6, <1>7 DEF op, d, S, next

\* The instruction that is executed is the one the test has seen, with the
\* operand it has seen.
LEMMA Here ==
  ASSUME Sizes, NEW R, Tested(R), NEW fs, Chain(fs, R, ip, cp, call), NEW op, Fetch(op)
  PROVE  LET p == fs[Len(fs)].place
         IN /\ p \in R /\ p \in Place /\ p.at = ip
            /\ Safe(code_seg, p) /\ Succ(code_seg, p) \subseteq R
            /\ fs[Len(fs)].base \in Nat /\ cp = fs[Len(fs)].base + p.depth
            /\ op = OpAt(code_seg, p) /\ op \in 0 .. MaxOpcode
            /\ op \in WithOperand =>
                 /\ Mapped(ip + 1)
                 /\ Operand = {OperandAt(code_seg, p)}
                 /\ OperandAt(code_seg, p) \in Word
<1> DEFINE n == Len(fs)
           p == fs[n].place
<1>1. fs \in Seq([base : Nat, place : R]) /\ n \in Nat /\ n > 0
  BY DEF Chain
<1>2. n \in 1 .. n
  BY <1>1
<1>3. fs[n] \in [base : Nat, place : R]
  BY <1>1, <1>2, SeqElement
<1>4. fs[n].base \in Nat /\ p \in R /\ p \in Place
  BY <1>3 DEF Tested
<1>5. p.at = ip /\ cp = fs[n].base + p.depth
  BY DEF Chain
<1>6. Safe(code_seg, p) /\ Succ(code_seg, p) \subseteq R
  BY <1>4 DEF Tested
<1>7. p.at \in Nat
  BY <1>4 DEF Place
<1> HIDE DEF p
<1>8. CodeAt(ip) = OpAt(code_seg, p) /\ OpAt(code_seg, p) \in 0 .. MaxOpcode
  BY <1>5, <1>6 DEF Safe, CodeAt, OpAt
<1>9. CodeAt(ip) # Junk
  BY <1>8, WordAssumption DEF MaxOpcode
<1>10. op = OpAt(code_seg, p)
  BY <1>8, <1>9 DEF Fetch, Readings
<1>11. op \in WithOperand => p.at + 1 < Len(code_seg) /\ OperandAt(code_seg, p) \in Word
  BY <1>6, <1>10 DEF Safe
<1>12. ASSUME op \in WithOperand
       PROVE  /\ Mapped(ip + 1)
              /\ Operand = {OperandAt(code_seg, p)}
              /\ OperandAt(code_seg, p) \in Word
  <2>1. ip + 1 < Len(code_seg) /\ OperandAt(code_seg, p) \in Word
    BY <1>5, <1>11, <1>12
  <2>2. Len(code_seg) <= WordMod /\ ip \in Nat
    BY <1>5, <1>7 DEF Tested
  <2>3. Mapped(ip + 1)
    <3>1. Len(code_seg) \in Nat
      BY DEF Tested
    <3> QED
      BY <2>1, <2>2, <3>1 DEF Mapped, Sizes
  <2>4. CodeAt(ip + 1) = OperandAt(code_seg, p)
    <3>1. (ip + 1) + 1 = ip + 2
      BY <2>2
    <3> QED
      BY <1>5, <2>1, <3>1 DEF CodeAt, OperandAt
  <2>5. CodeAt(ip + 1) # Junk
    BY <2>1, <2>4, WordAssumption DEF Word
  <2> QED
    BY <2>1, <2>3, <2>4, <2>5 DEF Operand, Readings
<1> QED
  BY <1>4, <1>5, <1>6, <1>8, <1>10, <1>12 DEF p


\* Going on at a place the test has visited is no loss of control.
LEMMA Arrive ==
  ASSUME Sizes, NEW R, Tested(R), ~ControlLost, NEW q \in R, Continue(q.at)
  PROVE  ip' = q.at /\ status' = "running" /\ ~ControlLost'
<1>1. q.at \in Nat /\ Len(code_seg) \in Nat /\ q.at < Len(code_seg)
  BY DEF Tested, Place, Safe
<1>2. Mapped(q.at)
  BY <1>1 DEF Mapped, Sizes
<1> QED
  BY <1>2 DEF Continue, ControlLost

\* The other errors are no loss of control.
LEMMA HaltGood ==
  ASSUME NEW R,
         \E err \in {ERR_STACK_OVERFLOW, ERR_STACK_UNDERFLOW, ERR_CALL_OVERFLOW,
                     ERR_DIV_ZERO, ERR_ARG_RANGE} : Fail(err)
  PROVE  Good(R)'
  BY DEF Good, ControlLost, Fail, ERR_STACK_OVERFLOW, ERR_STACK_UNDERFLOW,
         ERR_CALL_OVERFLOW, ERR_DIV_ZERO, ERR_ARG_RANGE, ERR_INV_OPCODE, ERR_JMP_BOUNDS,
         ERR_CALL_UNDERFLOW

\* A step to q within the function on top, which changes the size of its frame
\* or a variable, but no return address.
LEMMA MoveGood ==
  ASSUME Sizes, NEW R, Tested(R), ~ControlLost, NEW fs, Chain(fs, R, ip, cp, call),
         NEW q \in R, q.below = fs[Len(fs)].place.below, Continue(q.at),
         cp' \in CallSlots, cp' = fs[Len(fs)].base + q.depth,
         call' = [i \in CallSlots |-> call'[i]],
         \A i \in 2 .. Len(fs) : call'[fs[i].base] = call[fs[i].base]
  PROVE  Good(R)'
<1>1. ip' = q.at /\ ~ControlLost'
  BY Arrive
<1>2. R \subseteq Place
  BY DEF Tested
<1>3. \E gs : Chain(gs, R, q.at, cp', call') /\ gs[Len(gs)].place = q
  BY <1>2, ChainMove
<1>4. \E gs : Chain(gs, R, ip', cp', call')
  BY <1>1, <1>3
<1> QED
  BY <1>1, <1>4 DEF Good, OnTrack

\* The same for an instruction that does not touch the call stack.
LEMMA StayGood ==
  ASSUME Sizes, NEW R, Tested(R), Good(R), NEW op, Fetch(op), NEW fs,
         Chain(fs, R, ip, cp, call),
         NEW a, Goto(fs[Len(fs)].place, a) \in Succ(code_seg, fs[Len(fs)].place),
         Continue(a), UNCHANGED callvars
  PROVE  Good(R)'
<1> DEFINE p == fs[Len(fs)].place
           q == Goto(p, a)
<1>1. /\ p \in Place /\ Succ(code_seg, p) \subseteq R
      /\ cp = fs[Len(fs)].base + p.depth /\ status = "running"
  BY Here DEF Fetch
<1>2. q \in R /\ q.at = a /\ q.depth = p.depth /\ q.below = p.below
  BY <1>1 DEF Goto, Place
<1>3. cp' = cp /\ call' = call
  BY DEF callvars
<1>4. ~ControlLost /\ cp \in CallSlots /\ call = [i \in CallSlots |-> call[i]]
  BY <1>1 DEF Good, OnTrack
<1> HIDE DEF q
<1> QED
  BY <1>1, <1>2, <1>3, <1>4, MoveGood


\* Displacements are numbers of words.
LEMMA DisplacementNat == ASSUME NEW d \in Word PROVE Displacement(d) \in Nat
<1>1. WordMod \div 4 \in Nat \ {0}
  BY WordAssumption
<1>2. d \in Nat
  BY WordAssumption DEF Word
<1> DEFINE m == WordMod \div 4
<1> HIDE DEF m
<1>3. d % m \in Nat
  BY <1>1, <1>2 DEF m
<1> QED
  BY <1>3 DEF Displacement, m

\* LOAD, STORE and ARGLOAD use words that are no return addresses.
LEMMA AccessOK ==
  ASSUME Sizes, NEW R, Tested(R), NEW fs, Chain(fs, R, ip, cp, call), NEW op, Fetch(op),
         op \in {INSTR_LOAD, INSTR_STORE, INSTR_ARGLOAD}, NEW d \in Operand
  PROVE  /\ ~(cp - Displacement(d) < 0)
         /\ \A i \in 2 .. Len(fs) : fs[i].base # cp - Displacement(d)
<1> DEFINE p == fs[Len(fs)].place
<1>1. op \in WithOperand
  BY DEF WithOperand, ImmediateOps
<1>2. /\ Safe(code_seg, p) /\ op = OpAt(code_seg, p) /\ R \subseteq Place
      /\ Operand = {OperandAt(code_seg, p)} /\ OperandAt(code_seg, p) \in Word
  BY <1>1, Here DEF Tested
<1>3. d = OperandAt(code_seg, p) /\ d \in Word
  BY <1>2
<1>4. InFrame(p, Displacement(d))
  BY <1>2, <1>3 DEF Safe
<1> DEFINE k == Displacement(d)
<1>5. k \in Nat
  BY <1>3, DisplacementNat
<1> HIDE DEF k, p
<1>6. /\ cp - k \in Nat
      /\ \A i \in 2 .. Len(fs) : fs[i].base # cp - k
  BY <1>2, <1>4, <1>5, NoReturnAddress DEF p, k
<1>7. ~(cp - k < 0)
  <2>1. \A x \in Nat : ~(x < 0)
    OBVIOUS
  <2> QED
    BY <1>6, <2>1
<1> QED
  BY <1>6, <1>7 DEF k

\* Nothing but the operand stack and the output changes.
LEMMA StackStep ==
  ASSUME Sizes, NEW R, Tested(R), Good(R), Nop \/ PushConst \/ PrintTop \/ Load
  PROVE  Good(R)'
<1>1. status = "running"
  BY DEF Nop, PushConst, PrintTop, Load, Fetch
<1>2. PICK fs : Chain(fs, R, ip, cp, call)
  BY <1>1 DEF Good, OnTrack
<1> DEFINE p == fs[Len(fs)].place
<1>3. CASE Nop
  <2>1. Fetch(INSTR_NOP) /\ Continue(ip + 1) /\ UNCHANGED callvars
    BY <1>3 DEF Nop
  <2>2. p.at = ip /\ OpAt(code_seg, p) = INSTR_NOP
    BY <1>2, <2>1, Here
  <2>3. Goto(p, ip + 1) \in Succ(code_seg, p)
    BY <2>2, SuccOf
  <2> QED
    BY <1>2, <2>1, <2>3, StayGood
<1>4. CASE PushConst
  <2>1. Fetch(INSTR_PUSH)
    BY <1>4 DEF PushConst
  <2>2. p.at = ip /\ OpAt(code_seg, p) = INSTR_PUSH
    BY <1>2, <2>1, Here
  <2>3. Goto(p, ip + 2) \in Succ(code_seg, p)
    BY <2>2, SuccOf
  <2>4. Fail(ERR_STACK_OVERFLOW) \/ (Continue(ip + 2) /\ UNCHANGED callvars)
    BY <1>4 DEF PushConst
  <2> QED
    BY <1>2, <2>1, <2>3, <2>4, StayGood, HaltGood
<1>5. CASE PrintTop
  <2>1. Fetch(INSTR_PRINT)
    BY <1>5 DEF PrintTop
  <2>2. p.at = ip /\ OpAt(code_seg, p) = INSTR_PRINT
    BY <1>2, <2>1, Here
  <2>3. Goto(p, ip + 1) \in Succ(code_seg, p)
    BY <2>2, SuccOf
  <2>4. Fail(ERR_STACK_UNDERFLOW) \/ (Continue(ip + 1) /\ UNCHANGED callvars)
    BY <1>5 DEF PrintTop
  <2> QED
    BY <1>2, <2>1, <2>3, <2>4, StayGood, HaltGood
<1>6. CASE Load
  <2>1. Fetch(INSTR_LOAD)
    BY <1>6 DEF Load
  <2>2. p.at = ip /\ OpAt(code_seg, p) = INSTR_LOAD
    BY <1>2, <2>1, Here
  <2>3. Goto(p, ip + 2) \in Succ(code_seg, p)
    BY <2>2, SuccOf
  <2>4. PICK d \in Operand :
          \/ cp - Displacement(d) < 0
          \/ Fail(ERR_STACK_OVERFLOW)
          \/ Continue(ip + 2) /\ UNCHANGED callvars
    BY <1>6 DEF Load
  <2>5. ~(cp - Displacement(d) < 0)
    BY <1>2, <2>1, AccessOK
  <2> QED
    BY <1>2, <2>1, <2>3, <2>4, <2>5, StayGood, HaltGood
<1> QED
  BY <1>3, <1>4, <1>5, <1>6

\* Operators compute on the operand stack, jumps lead to places the test has
\* visited.
LEMMA OperatorStep ==
  ASSUME Sizes, NEW R, Tested(R), Good(R), NEW op \in ArithmeticOps, Arithmetic(op)
  PROVE  Good(R)'
<1>1. Fetch(op) /\ status = "running"
  BY DEF Arithmetic, Fetch
<1>2. PICK fs : Chain(fs, R, ip, cp, call)
  BY <1>1 DEF Good, OnTrack
<1> DEFINE p == fs[Len(fs)].place
<1>3. p.at = ip /\ OpAt(code_seg, p) = op
  BY <1>1, <1>2, Here
<1>4. Goto(p, ip + 1) \in Succ(code_seg, p)
  BY <1>3, SuccOf
<1>5. \/ Fail(ERR_STACK_UNDERFLOW) \/ Fail(ERR_DIV_ZERO)
      \/ Continue(ip + 1) /\ UNCHANGED callvars
  BY DEF Arithmetic
<1> QED
  BY <1>1, <1>2, <1>4, <1>5, StayGood, HaltGood


\* A jump that is taken leads to a place the test has visited, one that is not
\* to the next instruction.
LEMMA JumpStep ==
  ASSUME Sizes, NEW R, Tested(R), Good(R), Jump \/ \E op \in CompareOps : ConditionalJump(op)
  PROVE  Good(R)'
<1>1. PICK op \in {INSTR_JMP} \cup CompareOps :
        IF op = INSTR_JMP THEN Jump ELSE ConditionalJump(op)
  BY DEF CompareOps, INSTR_JMP, INSTR_JEQ, INSTR_JNE, INSTR_JL, INSTR_JLE, INSTR_JG, INSTR_JGE
<1>2. Fetch(op) /\ status = "running"
  BY <1>1 DEF Jump, ConditionalJump, Fetch
<1>3. PICK fs : Chain(fs, R, ip, cp, call)
  BY <1>2 DEF Good, OnTrack
<1> DEFINE p == fs[Len(fs)].place
           d == OperandAt(code_seg, p)
<1>4. op \in WithOperand
  BY <1>1 DEF WithOperand, ImmediateOps
<1>5. /\ p.at = ip /\ OpAt(code_seg, p) = op /\ Operand = {d}
      /\ p \in R /\ p \in Place /\ Succ(code_seg, p) \subseteq R
  BY <1>2, <1>3, <1>4, Here
<1>6. Goto(p, d) \in Succ(code_seg, p) /\ (op # INSTR_JMP => Goto(p, ip + 2) \in Succ(code_seg, p))
  BY <1>1, <1>5, SuccOf
<1>7. ~(d >= Len(code_seg))
  <2>1. Goto(p, d) \in R /\ Goto(p, d).at = d
    BY <1>5, <1>6 DEF Goto, Place
  <2>2. d \in Nat /\ d < Len(code_seg) /\ Len(code_seg) \in Nat
    BY <2>1 DEF Tested, Safe, Place
  <2> QED
    BY <2>2
<1>8. \/ Fail(ERR_STACK_UNDERFLOW)
      \/ Continue(d) /\ UNCHANGED callvars
      \/ op # INSTR_JMP /\ Continue(ip + 2) /\ UNCHANGED callvars
  <2>1. CASE op = INSTR_JMP
    BY <1>1, <1>5, <1>7, <2>1 DEF Jump
  <2>2. CASE op # INSTR_JMP
    <3>1. ConditionalJump(op)
      BY <1>1, <2>2
    <3>2. CASE sp < 2
      BY <3>1, <3>2 DEF ConditionalJump
    <3>3. CASE ~(sp < 2)
      <4>1. PICK taken \in Outcomes(op, stack[sp - 1], stack[sp]), t \in Operand :
              IF taken /\ t >= Len(code_seg)
              THEN Fail(ERR_JMP_BOUNDS)
              ELSE Continue(IF taken THEN t ELSE ip + 2) /\ UNCHANGED callvars
        BY <3>1, <3>3 DEF ConditionalJump, callvars
      <4> QED
        BY <1>5, <1>7, <2>2, <4>1
    <3> QED
      BY <3>2, <3>3
  <2> QED
    BY <2>1, <2>2
<1> QED
  BY <1>2, <1>3, <1>6, <1>8, StayGood, HaltGood

\* A call puts the address behind it on the call stack and goes on in the
\* function with an empty frame.
LEMMA CallStep ==
  ASSUME Sizes, NEW R, Tested(R), Good(R), Call PROVE Good(R)'
<1>1. Fetch(INSTR_CALL) /\ status = "running"
  BY DEF Call, Fetch
<1>2. PICK fs : Chain(fs, R, ip, cp, call)
  BY <1>1 DEF Good, OnTrack
<1> DEFINE p == fs[Len(fs)].place
           d == OperandAt(code_seg, p)
           back == Goto(p, ip + 2)
           callee == [at |-> d, depth |-> 0, below |-> p.depth]
<1>3. INSTR_CALL \in WithOperand
  BY DEF WithOperand, ImmediateOps
<1>4. /\ p.at = ip /\ OpAt(code_seg, p) = INSTR_CALL /\ Operand = {d} /\ d \in Word
      /\ p \in Place /\ Succ(code_seg, p) \subseteq R
      /\ fs[Len(fs)].base \in Nat /\ cp = fs[Len(fs)].base + p.depth
  BY <1>1, <1>2, <1>3, Here
<1>5. back \in R /\ callee \in R /\ R \subseteq Place
  BY <1>4, SuccOf DEF Tested
<1>6. back.at = ip + 2 /\ back.depth = p.depth /\ back.below = p.below
  BY <1>4 DEF Goto, Place
<1>7. callee.at = d /\ callee.depth = 0 /\ callee.below = back.depth
  BY <1>6
<1>8. p.depth \in Nat /\ ip \in Nat /\ cp \in Nat
  BY <1>4 DEF Place
<1> HIDE DEF back, callee
<1>9. ip + 2 < Len(code_seg) /\ d < Len(code_seg) /\ Len(code_seg) \in Nat /\ d \in Nat
  BY <1>5, <1>6, <1>7 DEF Tested, Safe, Place
<1>10. (ip + 2) % WordMod = ip + 2
  <2>1. ip + 2 \in Nat /\ ip + 2 < WordMod /\ WordMod \in Nat
    BY <1>8, <1>9, WordAssumption DEF Tested
  <2> QED
    BY <2>1
<1>11. CASE Fail(ERR_CALL_OVERFLOW)
  BY <1>11, HaltGood
<1>12. CASE ~Fail(ERR_CALL_OVERFLOW)
  <2>1. /\ cp + 1 \in CallSlots /\ cp' = cp + 1
        /\ call' = [call EXCEPT ![cp + 1] = ip + 2]
        /\ Continue(d)
    BY <1>4, <1>9, <1>10, <1>12 DEF Call
  <2>2. ~ControlLost /\ cp \in CallSlots /\ call = [i \in CallSlots |-> call[i]]
    BY <1>1 DEF Good, OnTrack
  <2>3. /\ call' = [i \in CallSlots |-> call'[i]]
        /\ call'[cp + 1] = ip + 2
        /\ \A i \in CallSlots : i # cp + 1 => call'[i] = call[i]
    BY <2>1, <2>2
  <2>4. ip' = d /\ ~ControlLost'
    BY <1>5, <1>7, <2>1, <2>2, Arrive
  <2>5. ASSUME NEW i \in 2 .. Len(fs) PROVE call'[fs[i].base] = call[fs[i].base]
    <3>1. fs[i].base \in Nat /\ fs[i].base <= cp
      BY <1>2, <1>4, <1>5, <1>8, ReturnAddressesBelow
    <3>2. fs[i].base \in CallSlots /\ fs[i].base # cp + 1
      BY <1>8, <2>2, <3>1 DEF CallSlots, Sizes
    <3> QED
      BY <2>3, <3>2
  <2>6. cp = fs[Len(fs)].base + back.depth /\ back.below = fs[Len(fs)].place.below
    BY <1>4, <1>6
  <2>7. Chained(R, callee.at, cp', call')
    <3>1. call'[cp'] = back.at /\ cp' = cp + 1
      BY <1>6, <2>1, <2>3
    <3>2. \A i \in 2 .. Len(fs) : call'[fs[i].base] = call[fs[i].base]
      BY <2>5
    <3>3. Chain(fs, R, ip, cp, call) /\ R \subseteq Place
      BY <1>2, <1>5
    <3> HIDE DEF p, d
    <3>4. callee \in R /\ callee.depth = 0 /\ callee.below = back.depth
      BY <1>5, <1>7
    <3>5. \A b \in R, c \in R : \A reach, after :
            /\ b.below = fs[Len(fs)].place.below
            /\ cp = fs[Len(fs)].base + b.depth
            /\ c.depth = 0 /\ c.below = b.depth
            /\ reach = cp + 1 /\ after[reach] = b.at
            /\ \A i \in 2 .. Len(fs) : after[fs[i].base] = call[fs[i].base]
            => Chained(R, c.at, reach, after)
      BY <3>3, ChainCall
    <3>6. \A reach, after :
            /\ reach = cp + 1 /\ after[reach] = back.at
            /\ \A i \in 2 .. Len(fs) : after[fs[i].base] = call[fs[i].base]
            => Chained(R, callee.at, reach, after)
      BY <1>5, <2>6, <3>4, <3>5
    <3> HIDE DEF back, callee
    <3>7. cp' = cp + 1 /\ call'[cp'] = back.at => Chained(R, callee.at, cp', call')
      BY <3>2, <3>6
    <3> QED
      BY <3>1, <3>7
  <2> QED
    BY <1>7, <2>1, <2>3, <2>4, <2>7 DEF Good, OnTrack, Chained
<1> QED
  BY <1>11, <1>12


\* RET finds the return address on top of the call stack, and it leads to the
\* place where the caller goes on.
LEMMA RetStep ==
  ASSUME Sizes, NEW R, Tested(R), Good(R), Ret PROVE Good(R)'
<1>1. Fetch(INSTR_RET) /\ status = "running"
  BY DEF Ret, Fetch
<1>2. PICK fs : Chain(fs, R, ip, cp, call)
  BY <1>1 DEF Good, OnTrack
<1> DEFINE p == fs[Len(fs)].place
<1>3. OpAt(code_seg, p) = INSTR_RET /\ Safe(code_seg, p) /\ R \subseteq Place
  BY <1>1, <1>2, Here DEF Tested
<1>4. p.depth = 0 /\ p.below # NoCaller
  BY <1>3 DEF Safe
<1> DEFINE after == [i \in CallSlots |-> IF i <= cp - 1 THEN call[i] ELSE Junk]
<1>5. ~ControlLost /\ cp \in CallSlots /\ call = [i \in CallSlots |-> call[i]]
  BY <1>1 DEF Good, OnTrack
<1>6. /\ \A i \in 0 .. cp - 1 : i \in CallSlots /\ i <= cp - 1
      /\ cp - 1 <= cp /\ 0 \in CallSlots
  BY <1>5 DEF CallSlots, Sizes
<1>7. \A i \in 0 .. cp - 1 : after[i] = call[i]
  BY <1>6
<1> HIDE DEF after
<1>8. PICK back : back = call[cp]
  OBVIOUS
<1>9. PICK reach : reach = cp - 1
  OBVIOUS
<1>10. /\ cp \in Nat \ {0}
       /\ \E q \in R : back = q.at
       /\ \E gs : Chain(gs, R, back, reach, after)
  <2>1. \A i \in 0 .. reach : after[i] = call[i]
    BY <1>7, <1>9
  <2> HIDE DEF p
  <2>2. fs[Len(fs)].place.depth = 0 /\ fs[Len(fs)].place.below # NoCaller
    BY <1>4 DEF p
  <2>3. ASSUME NEW words, words = after
        PROVE  /\ cp \in Nat \ {0}
               /\ \E q \in R : back = q.at
               /\ \E gs : Chain(gs, R, back, reach, words)
    <3>1. \A i \in 0 .. reach : words[i] = call[i]
      BY <2>1, <2>3
    <3> QED
      BY <1>2, <1>3, <1>8, <1>9, <2>2, <3>1, ChainPop
  <2> QED
    BY <2>3
<1>11. PICK q \in R : back = q.at
  BY <1>10
<1>12. back \in Nat /\ back < Len(code_seg) /\ Len(code_seg) \in Nat
  BY <1>11 DEF Tested, Safe, Place
<1>13. Readings(call[cp]) = {back}
  BY <1>8, <1>12, WordAssumption DEF Readings
<1>14. cp' = cp - 1 /\ call' = after /\ Continue(back)
  BY <1>10, <1>12, <1>13 DEF Ret, DropCall, after
<1>15. ip' = back /\ ~ControlLost'
  BY <1>5, <1>11, <1>14, Arrive
<1>16. cp' \in CallSlots /\ call' = [i \in CallSlots |-> call'[i]]
  BY <1>5, <1>10, <1>14 DEF CallSlots, Sizes, after
<1>17. \E gs : Chain(gs, R, ip', cp', call')
  BY <1>9, <1>10, <1>14, <1>15
<1> QED
  BY <1>15, <1>16, <1>17 DEF Good, OnTrack

\* STORE and ARGLOAD leave the return addresses alone.
LEMMA WriteStep ==
  ASSUME Sizes, NEW R, Tested(R), Good(R), Store \/ ArgLoad PROVE Good(R)'
<1>1. PICK op \in {INSTR_STORE, INSTR_ARGLOAD} :
        /\ Fetch(op)
        /\ \E d \in Operand :
             \/ Fail(ERR_STACK_UNDERFLOW) \/ Fail(ERR_ARG_RANGE)
             \/ cp - Displacement(d) < 0
             \/ /\ \E v : call' = [call EXCEPT ![cp - Displacement(d)] = v]
                /\ Continue(ip + 2) /\ cp' = cp
  <2>1. CASE Store
    BY <2>1 DEF Store
  <2>2. CASE ArgLoad
    BY <2>2 DEF ArgLoad
  <2> QED
    BY <2>1, <2>2
<1>2. status = "running"
  BY <1>1 DEF Fetch
<1>3. PICK fs : Chain(fs, R, ip, cp, call)
  BY <1>2 DEF Good, OnTrack
<1> DEFINE p == fs[Len(fs)].place
           q == Goto(p, ip + 2)
<1>4. /\ p.at = ip /\ OpAt(code_seg, p) = op /\ p \in Place /\ Succ(code_seg, p) \subseteq R
      /\ cp = fs[Len(fs)].base + p.depth
  BY <1>1, <1>3, Here
<1>5. q \in R /\ q.at = ip + 2 /\ q.depth = p.depth /\ q.below = p.below
  BY <1>4, SuccOf DEF Goto, Place
<1>6. PICK d \in Operand :
        \/ Fail(ERR_STACK_UNDERFLOW) \/ Fail(ERR_ARG_RANGE)
        \/ cp - Displacement(d) < 0
        \/ /\ \E v : call' = [call EXCEPT ![cp - Displacement(d)] = v]
           /\ Continue(ip + 2) /\ cp' = cp
  BY <1>1
<1>7. /\ ~(cp - Displacement(d) < 0)
      /\ \A i \in 2 .. Len(fs) : fs[i].base # cp - Displacement(d)
  BY <1>1, <1>3, AccessOK
<1>8. CASE Fail(ERR_STACK_UNDERFLOW) \/ Fail(ERR_ARG_RANGE)
  BY <1>8, HaltGood
<1>9. CASE \E v : /\ call' = [call EXCEPT ![cp - Displacement(d)] = v]
                  /\ Continue(ip + 2) /\ cp' = cp
  <2>1. PICK v : call' = [call EXCEPT ![cp - Displacement(d)] = v]
    BY <1>9
  <2>2. Continue(q.at) /\ cp' = cp
    BY <1>5, <1>9
  <2>3. ~ControlLost /\ cp \in CallSlots /\ call = [i \in CallSlots |-> call[i]]
    BY <1>2 DEF Good, OnTrack
  <2>4. /\ call' = [i \in CallSlots |-> call'[i]]
        /\ \A i \in CallSlots : i # cp - Displacement(d) => call'[i] = call[i]
    BY <2>1, <2>3
  <2>5. ASSUME NEW i \in 2 .. Len(fs) PROVE call'[fs[i].base] = call[fs[i].base]
    <3>1. fs[i].base \in Nat /\ fs[i].base <= cp
      BY <1>3, ReturnAddressesBelow DEF Tested
    <3>2. fs[i].base \in CallSlots
      BY <2>3, <3>1 DEF CallSlots, Sizes
    <3> QED
      BY <1>7, <2>4, <3>2
  <2> HIDE DEF q
  <2> QED
    BY <1>3, <1>4, <1>5, <2>2, <2>3, <2>4, <2>5, MoveGood
<1> QED
  BY <1>6, <1>7, <1>8, <1>9


\* PROLOG and EPILOG move the top, but not below the return address.
LEMMA FrameStep ==
  ASSUME Sizes, NEW R, Tested(R), Good(R), Prolog \/ Epilog PROVE Good(R)'
<1>1. PICK op \in {INSTR_PROLOG, INSTR_EPILOG} :
        Fetch(op) /\ IF op = INSTR_PROLOG THEN Prolog ELSE Epilog
  BY DEF Prolog, Epilog, INSTR_PROLOG, INSTR_EPILOG
<1>2. status = "running"
  BY <1>1 DEF Fetch
<1>3. PICK fs : Chain(fs, R, ip, cp, call)
  BY <1>2 DEF Good, OnTrack
<1> DEFINE p == fs[Len(fs)].place
           d == OperandAt(code_seg, p)
           k == Displacement(d)
           q == IF op = INSTR_PROLOG THEN [Goto(p, p.at + 2) EXCEPT !.depth = @ + k]
                                     ELSE [Goto(p, p.at + 2) EXCEPT !.depth = @ - k]
<1>4. op \in WithOperand
  BY <1>1 DEF WithOperand, ImmediateOps
<1>5. /\ p.at = ip /\ OpAt(code_seg, p) = op /\ Operand = {d} /\ d \in Word
      /\ p \in Place /\ Safe(code_seg, p) /\ Succ(code_seg, p) \subseteq R
      /\ fs[Len(fs)].base \in Nat /\ cp = fs[Len(fs)].base + p.depth
  BY <1>1, <1>3, <1>4, Here
<1>6. k \in Nat
  BY <1>5, DisplacementNat
<1>7. q \in R
  BY <1>1, <1>5, SuccOf
<1>8. /\ q.at = ip + 2 /\ q.below = p.below
      /\ op = INSTR_PROLOG => q.depth = p.depth + k
      /\ op # INSTR_PROLOG => q.depth = p.depth - k
  BY <1>5 DEF Goto, Place
<1>9. p.depth \in Nat /\ cp \in Nat
  BY <1>5 DEF Place
<1>10. op = INSTR_EPILOG => k <= p.depth
  BY <1>5 DEF Safe
<1> HIDE DEF q, k, p
<1>11. ~ControlLost /\ cp \in CallSlots /\ call = [i \in CallSlots |-> call[i]]
  BY <1>2 DEF Good, OnTrack
<1>12. CASE Fail(ERR_CALL_OVERFLOW)
  BY <1>12, HaltGood
<1>13. CASE ~Fail(ERR_CALL_OVERFLOW)
  <2>1. /\ Continue(q.at) /\ cp' = fs[Len(fs)].base + q.depth /\ cp' \in CallSlots
        /\ call' = [i \in CallSlots |-> call'[i]]
        /\ \A i \in CallSlots : i <= fs[Len(fs)].base => call'[i] = call[i]
    <3>1. CASE op = INSTR_PROLOG
      <4>1. /\ cp' = cp + k /\ cp' \in CallSlots /\ call' \in [CallSlots -> WordJ]
            /\ \A i \in CallSlots : i <= cp => call'[i] = call[i]
            /\ Continue(ip + 2)
        BY <1>1, <1>5, <1>13, <3>1 DEF Prolog, k
      <4>2. cp' = fs[Len(fs)].base + q.depth
        BY <1>5, <1>6, <1>8, <1>9, <3>1, <4>1
      <4>3. call' = [i \in CallSlots |-> call'[i]]
        BY <4>1
      <4>4. \A i \in CallSlots : i <= fs[Len(fs)].base => i <= cp
        BY <1>5, <1>9 DEF CallSlots, Sizes
      <4> QED
        BY <1>8, <4>1, <4>2, <4>3, <4>4
    <3>2. CASE op # INSTR_PROLOG
      <4>1. k <= p.depth /\ k <= cp
        BY <1>1, <1>5, <1>6, <1>9, <1>10, <3>2
      <4>2. /\ cp' = cp - k
            /\ call' = [i \in CallSlots |-> IF i <= cp - k THEN call[i] ELSE Junk]
            /\ Continue(ip + 2)
        <5>1. ~(cp < k)
          BY <1>6, <1>9, <4>1
        <5> QED
          BY <1>1, <1>5, <3>2, <5>1 DEF Epilog, DropCall, k
      <4>3. cp' = fs[Len(fs)].base + q.depth /\ cp' \in Nat /\ cp' <= cp
            /\ fs[Len(fs)].base <= cp - k
        <5>1. q.depth = p.depth - k /\ fs[Len(fs)].base \in Nat /\ p.depth \in Nat
              /\ k \in Nat /\ cp = fs[Len(fs)].base + p.depth
          BY <1>5, <1>6, <1>8, <1>9, <3>2
        <5>2. cp' = cp - k /\ k <= p.depth
          BY <4>1, <4>2
        <5> HIDE DEF p
        <5> QED
          BY SMTT(20), <5>1, <5>2
      <4>4. cp' \in CallSlots
        BY <1>9, <1>11, <4>3 DEF CallSlots, Sizes
      <4>5. call' = [i \in CallSlots |-> call'[i]]
        BY <4>2
      <4>6. \A i \in CallSlots : i <= fs[Len(fs)].base => i <= cp - k
        BY <1>5, <1>6, <1>9, <4>3 DEF CallSlots, Sizes
      <4>7. \A i \in CallSlots : i <= fs[Len(fs)].base => call'[i] = call[i]
        BY <4>2, <4>6
      <4> QED
        BY <1>8, <4>2, <4>3, <4>4, <4>5, <4>7
    <3> QED
      BY <3>1, <3>2
  <2>2. ASSUME NEW i \in 2 .. Len(fs) PROVE call'[fs[i].base] = call[fs[i].base]
    <3>1. fs[i].base \in Nat /\ fs[i].base <= cp /\ fs[i].base <= fs[Len(fs)].base
      BY <1>3, ReturnAddressesBelow DEF Tested
    <3>2. fs[i].base \in CallSlots
      BY <1>9, <1>11, <3>1 DEF CallSlots, Sizes
    <3> QED
      BY <2>1, <3>1, <3>2
  <2>3. q.below = fs[Len(fs)].place.below
    BY <1>8 DEF p
  <2> QED
    BY <1>3, <1>7, <1>11, <2>1, <2>2, <2>3, MoveGood
<1> QED
  BY <1>12, <1>13

\* FINISH ends the program.  There is no invalid opcode, and no operand on an
\* unmapped page.
LEMMA EndStep ==
  ASSUME Sizes, NEW R, Tested(R), Good(R), Finish \/ InvalidOpcode \/ OperandFault
  PROVE  Good(R)'
<1>1. CASE Finish
  BY <1>1 DEF Finish, Good, ControlLost, Fetch
<1>2. ASSUME NEW op, Fetch(op)
      PROVE  op \in 0 .. MaxOpcode /\ (op \in WithOperand => Mapped(ip + 1))
  <2>1. PICK fs : Chain(fs, R, ip, cp, call)
    BY <1>2 DEF Good, OnTrack, Fetch
  <2> QED
    BY <1>2, <2>1, Here
<1>3. ~InvalidOpcode
  BY <1>2 DEF InvalidOpcode, MaxOpcode
<1>4. ~OperandFault
  BY <1>2 DEF OperandFault, WithOperand
<1> QED
  BY <1>1, <1>3, <1>4

-----------------------------------------------------------------------------
(* The theorem.                                                            *)

\* Every instruction keeps control where the test has been.
LEMMA NextGood ==
  ASSUME Sizes, NEW R, Tested(R), Good(R), [Next]_vars PROVE Good(R)'
<1>1. CASE Next
  BY <1>1, StackStep, WriteStep, OperatorStep, JumpStep, CallStep, RetStep, FrameStep, EndStep
     DEF Next
<1>2. CASE UNCHANGED vars
  BY <1>2 DEF vars, Good, ControlLost, OnTrack
<1> QED
  BY <1>1, <1>2

\* The code is never changed.
LEMMA CodeUnchanged == ASSUME [Next]_vars PROVE code_seg' = code_seg
<1> USE DEF Continue, Fail
<1>1. CASE Next
  BY <1>1 DEF Next, Nop, Finish, PushConst, PrintTop, Load, Store, Arithmetic, Jump,
     ConditionalJump, Call, Ret, Prolog, Epilog, ArgLoad, InvalidOpcode, OperandFault
<1>2. CASE UNCHANGED vars
  BY <1>2 DEF vars
<1> QED
  BY <1>1, <1>2

\* At the start there is the frame of the entry code.
LEMMA InitFrames == Sizes /\ Init => FramesInv
<1> SUFFICES ASSUME Sizes, Init PROVE FramesInv
  OBVIOUS
<1>1. code_seg \in Seq(WordJ)
  <2>1. code_seg \in Seq(Word) /\ Word \subseteq WordJ
    BY DEF Init, WordJ
  <2> QED
    BY <2>1
<1>2. ASSUME WellFramed(code_seg) PROVE Good(Reached(code_seg))
  <2>1. PICK R : R = Reached(code_seg)
    OBVIOUS
  <2>2. Entry \in R
    BY <1>2, <2>1 DEF WellFramed
  <2> DEFINE f == [base |-> 0, place |-> Entry]
             fs == <<f>>
  <2>3. f \in [base : Nat, place : R]
    BY <2>2
  <2>4. f.base = 0 /\ f.place = Entry /\ Entry.at = 0 /\ Entry.depth = 0
        /\ Entry.below = NoCaller
    BY DEF Entry
  <2> HIDE DEF f
  <2>5. fs \in Seq([base : Nat, place : R]) /\ Len(fs) = 1 /\ fs[1] = f
    BY <2>3
  <2> HIDE DEF fs
  <2>6. ip = 0 /\ cp = 0 /\ call = EmptyCall
    BY DEF Init
  <2>7. Chain(fs, R, ip, cp, call)
    <3>1. \A i \in 1 .. Len(fs) - 1 : FALSE
      BY <2>5
    <3>2. \A i, j \in 1 .. Len(fs) : ~(i < j)
      BY <2>5
    <3> QED
      BY <2>4, <2>5, <2>6, <3>1, <3>2 DEF Chain
  <2>8. cp \in CallSlots /\ call = [i \in CallSlots |-> call[i]]
    BY <2>6 DEF EmptyCall, CallSlots, Sizes
  <2>9. ~ControlLost
    BY DEF Init, ControlLost, ERR_INV_OPCODE, ERR_JMP_BOUNDS, ERR_CALL_UNDERFLOW
  <2> QED
    BY <2>1, <2>7, <2>8, <2>9 DEF Good, OnTrack
<1> QED
  BY <1>1, <1>2 DEF FramesInv

\* Every step keeps the frames.
LEMMA StepFrames == Sizes /\ FramesInv /\ [Next]_vars => FramesInv'
<1> SUFFICES ASSUME Sizes, FramesInv, [Next]_vars PROVE FramesInv'
  OBVIOUS
<1>1. code_seg' = code_seg /\ code_seg \in Seq(WordJ)
  BY CodeUnchanged DEF FramesInv
<1>2. PICK R : R = Reached(code_seg)
  OBVIOUS
<1>3. Reached(code_seg)' = R /\ WellFramed(code_seg)' = WellFramed(code_seg)
  BY <1>1, <1>2
<1>4. ASSUME WellFramed(code_seg) PROVE Good(R)'
  <2>1. Tested(R)
    BY <1>1, <1>2, <1>4 DEF WellFramed, Tested
  <2>2. Good(R)
    BY <1>2, <1>4 DEF FramesInv
  <2> QED
    BY <2>1, <2>2, NextGood
<1> QED
  BY <1>1, <1>3, <1>4 DEF FramesInv

(***************************************************************************)
(* While a program runs whose code passes the test, the call stack is a    *)
(* chain of frames, each return address in its place, and the instruction  *)
(* pointer is at a place the test has visited.                             *)
(***************************************************************************)
THEOREM FramesKept == ASSUME Sizes PROVE Spec => []FramesInv
  BY InitFrames, StepFrames, PTL DEF Spec

(***************************************************************************)
(* Code that passes the test is never left, whatever its arguments and     *)
(* however deep it recurses.                                               *)
(***************************************************************************)
THEOREM UnderControl == ASSUME Sizes PROVE Spec => []ControlStays
<1>1. FramesInv => ControlStays
  BY DEF FramesInv, ControlStays, Good
<1> QED
  BY <1>1, FramesKept, PTL
=============================================================================
