----------------------------- MODULE ZfsExtProofs ----------------------------
(***************************************************************************)
(* Theorems about ZfsExt: for every set of threads where they say nothing  *)
(* else, and for every depth to which calls nest.                          *)
(***************************************************************************)
EXTENDS ZfsExt, SequenceTheorems, FiniteSetTheorems, TLAPS

(***************************************************************************)
(* Stacks of calls.                                                        *)
(***************************************************************************)

\* The innermost call of a stack.
LEMMA Innermost ==
  ASSUME NEW s \in Seq(Call)
  PROVE  /\ Len(s) \in Nat
         /\ \A i \in 1 .. Len(s) : s[i] \in Call
         /\ s # <<>> <=> Len(s) # 0
         /\ s # <<>> => Len(s) \in 1 .. Len(s) /\ 1 \in 1 .. Len(s)
<1>1. Len(s) \in Nat /\ \A i \in 1 .. Len(s) : s[i] \in Call
  BY LenProperties, ElementOfSeq
<1>2. s = <<>> <=> Len(s) = 0
  BY EmptySeq
<1> QED
  BY <1>1, <1>2

\* A call is entered.
LEMMA Push ==
  ASSUME NEW s \in Seq(Call), NEW c \in Call
  PROVE  /\ Append(s, c) \in Seq(Call)
         /\ Append(s, c) # <<>>
         /\ Len(Append(s, c)) = Len(s) + 1
         /\ \A i \in 1 .. Len(s) : Append(s, c)[i] = s[i]
         /\ Append(s, c)[Len(s) + 1] = c
<1>1. /\ Append(s, c) \in Seq(Call)
      /\ Len(Append(s, c)) = Len(s) + 1
      /\ \A i \in 1 .. Len(s) : Append(s, c)[i] = s[i]
      /\ Append(s, c)[Len(s) + 1] = c
  BY AppendProperties
<1>2. Append(s, c) # <<>>
  BY <1>1, Innermost
<1> QED
  BY <1>1, <1>2

\* The innermost call returns.
LEMMA Pop ==
  ASSUME NEW s \in Seq(Call), s # <<>>
  PROVE  LET r == SubSeq(s, 1, Len(s) - 1)
         IN  /\ r \in Seq(Call)
             /\ Len(r) = Len(s) - 1
             /\ \A i \in 1 .. Len(r) : r[i] = s[i]
             /\ r = <<>> <=> Len(s) = 1
<1> DEFINE r == SubSeq(s, 1, Len(s) - 1)
<1>1. Len(s) \in Nat /\ Len(s) # 0
  BY Innermost
<1>2. r \in Seq(Call) /\ Len(r) = Len(s) - 1 /\ \A i \in 1 .. Len(s) - 1 : r[i] = s[i]
  BY <1>1, SubSeqProperties
<1>3. r = <<>> <=> Len(r) = 0
  BY <1>2, Innermost
<1> QED
  BY <1>1, <1>2, <1>3

\* The innermost call changes.
LEMMA Change ==
  ASSUME NEW s \in Seq(Call), s # <<>>, NEW c \in Call
  PROVE  LET r == [s EXCEPT ![Len(s)] = c]
         IN  /\ r \in Seq(Call)
             /\ Len(r) = Len(s)
             /\ r # <<>>
             /\ r[Len(s)] = c
             /\ \A i \in 1 .. Len(s) : i # Len(s) => r[i] = s[i]
<1> DEFINE r == [s EXCEPT ![Len(s)] = c]
<1>1. Len(s) \in 1 .. Len(s)
  BY Innermost
<1>2. r \in Seq(Call) /\ Len(r) = Len(s)
  BY <1>1, ExceptSeq
<1>3. r # <<>>
  BY <1>2, Innermost
<1>4. DOMAIN s = 1 .. Len(s)
  BY LenProperties
<1> QED
  BY <1>1, <1>2, <1>3, <1>4
-----------------------------------------------------------------------------
(***************************************************************************)
(* What a step does to the stacks.                                         *)
(***************************************************************************)

\* The stacks of threads S are as they were, but for lists that were lost.
Kept(S) ==
  \A u \in S :
    /\ Len(calls'[u]) = Len(calls[u])
    /\ calls'[u] = <<>> <=> calls[u] = <<>>
    /\ \A i \in 1 .. Len(calls[u]) :
         /\ calls'[u][i].pc = calls[u][i].pc
         /\ calls'[u][i].buffer = calls[u][i].buffer
         /\ calls'[u][i].fn = calls[u][i].fn
         /\ calls'[u][i].list = "none" <=> calls[u][i].list = "none"

\* Losing the lists changes nothing else.
LEMMA ReplacedKeeps ==
  ASSUME CallsOK
  PROVE  /\ Replaced \in [Threads -> Seq(Call)]
         /\ \A u \in Threads :
              /\ Len(Replaced[u]) = Len(calls[u])
              /\ Replaced[u] = <<>> <=> calls[u] = <<>>
              /\ \A i \in 1 .. Len(calls[u]) :
                   /\ Replaced[u][i] \in Call
                   /\ Replaced[u][i].pc = calls[u][i].pc
                   /\ Replaced[u][i].buffer = calls[u][i].buffer
                   /\ Replaced[u][i].fn = calls[u][i].fn
                   /\ Replaced[u][i].list = "none" <=> calls[u][i].list = "none"
                   /\ calls[u][i].list = "none" => Replaced[u][i] = calls[u][i]
<1> SUFFICES ASSUME NEW u \in Threads
             PROVE  /\ Replaced[u] \in Seq(Call)
                    /\ Len(Replaced[u]) = Len(calls[u])
                    /\ Replaced[u] = <<>> <=> calls[u] = <<>>
                    /\ \A i \in 1 .. Len(calls[u]) :
                         /\ Replaced[u][i] \in Call
                         /\ Replaced[u][i].pc = calls[u][i].pc
                         /\ Replaced[u][i].buffer = calls[u][i].buffer
                         /\ Replaced[u][i].fn = calls[u][i].fn
                         /\ Replaced[u][i].list = "none" <=> calls[u][i].list = "none"
                         /\ calls[u][i].list = "none" => Replaced[u][i] = calls[u][i]
  BY DEF Replaced
<1> DEFINE s == calls[u]
           Lost(c) == IF c.list = "held" THEN [c EXCEPT !.list = "lost"] ELSE c
<1>1. s \in Seq(Call)
  BY DEF CallsOK
<1>2. Len(s) \in Nat /\ \A i \in 1 .. Len(s) : s[i] \in Call
  BY <1>1, Innermost
<1>3. Replaced[u] = [i \in 1 .. Len(s) |-> Lost(s[i])]
  BY DEF Replaced
<1>4. ASSUME NEW c \in Call
      PROVE  /\ Lost(c) \in Call
             /\ Lost(c).pc = c.pc /\ Lost(c).buffer = c.buffer /\ Lost(c).fn = c.fn
             /\ Lost(c).list = "none" <=> c.list = "none"
             /\ c.list = "none" => Lost(c) = c
  BY DEF Call
<1>5. \A i \in 1 .. Len(s) : Replaced[u][i] = Lost(s[i])
  BY <1>3
<1> HIDE DEF Lost
<1>6. Replaced[u] \in Seq(Call) /\ Len(Replaced[u]) = Len(s)
  BY <1>2, <1>3, <1>4
<1>7. Replaced[u] = <<>> <=> s = <<>>
  BY <1>1, <1>6, Innermost
<1> QED
  BY <1>2, <1>4, <1>5, <1>6, <1>7

\* A call c is entered on t's stack.
Entered(t, c) ==
  /\ Len(calls'[t]) = Len(calls[t]) + 1
  /\ calls'[t] # <<>>
  /\ calls'[t][Len(calls[t]) + 1] = c
  /\ \A i \in 1 .. Len(calls[t]) :
       /\ calls'[t][i].pc = calls[t][i].pc
       /\ calls'[t][i].buffer = calls[t][i].buffer
       /\ calls'[t][i].list = "none" <=> calls[t][i].list = "none"
       /\ calls[t][i].list = "none" => calls'[t][i] = calls[t][i]

LEMMA Enters ==
  ASSUME CallsOK, NEW t \in Threads, NEW c \in Call, Len(calls[t]) < MaxDepth,
         NEW others \in {calls, Replaced},
         calls' = [others EXCEPT ![t] = Append(others[t], c)]
  PROVE  CallsOK' /\ Kept(Threads \ {t}) /\ Entered(t, c)
<1>1. /\ others \in [Threads -> Seq(Call)]
      /\ \A u \in Threads :
           /\ Len(others[u]) = Len(calls[u])
           /\ others[u] = <<>> <=> calls[u] = <<>>
           /\ \A i \in 1 .. Len(calls[u]) :
                /\ others[u][i].pc = calls[u][i].pc
                /\ others[u][i].buffer = calls[u][i].buffer
                /\ others[u][i].fn = calls[u][i].fn
                /\ others[u][i].list = "none" <=> calls[u][i].list = "none"
                /\ calls[u][i].list = "none" => others[u][i] = calls[u][i]
  <2>1. CASE others = calls
    BY <2>1 DEF CallsOK
  <2>2. CASE others = Replaced
    BY <2>2, ReplacedKeeps
  <2> QED
    BY <2>1, <2>2
<1>2. /\ Append(others[t], c) \in Seq(Call)
      /\ Append(others[t], c) # <<>>
      /\ Len(Append(others[t], c)) = Len(calls[t]) + 1
      /\ \A i \in 1 .. Len(calls[t]) : Append(others[t], c)[i] = others[t][i]
      /\ Append(others[t], c)[Len(calls[t]) + 1] = c
  BY <1>1, Push
<1>3. /\ calls'[t] = Append(others[t], c)
      /\ \A u \in Threads \ {t} : calls'[u] = others[u]
      /\ calls' \in [Threads -> Seq(Call)]
  BY <1>1, <1>2
<1>4. Len(calls[t]) \in Nat /\ MaxDepth \in Nat
  BY Innermost, BoundAssumption DEF CallsOK
<1>5. CallsOK'
  BY <1>1, <1>2, <1>3, <1>4 DEF CallsOK
<1>6. Kept(Threads \ {t})
  BY <1>1, <1>3 DEF Kept
<1>7. Entered(t, c)
  BY <1>1, <1>2, <1>3 DEF Entered
<1> QED
  BY <1>5, <1>6, <1>7

\* The innermost call of t changes to c.
Changed(t, c) ==
  /\ Len(calls'[t]) = Len(calls[t])
  /\ calls'[t] # <<>>
  /\ calls'[t][Len(calls[t])] = c
  /\ \A i \in 1 .. Len(calls[t]) : i # Len(calls[t]) => calls'[t][i] = calls[t][i]

LEMMA Changes ==
  ASSUME CallsOK, NEW t \in Threads, calls[t] # <<>>, NEW c \in Call, SetTop(t, c)
  PROVE  CallsOK' /\ Kept(Threads \ {t}) /\ Changed(t, c)
<1> DEFINE s == calls[t]
           r == [s EXCEPT ![Len(s)] = c]
<1>1. s \in Seq(Call)
  BY DEF CallsOK
<1>2. /\ r \in Seq(Call) /\ Len(r) = Len(s) /\ r # <<>> /\ r[Len(s)] = c
      /\ \A i \in 1 .. Len(s) : i # Len(s) => r[i] = s[i]
  BY <1>1, Change
<1>3. /\ calls'[t] = r
      /\ \A u \in Threads \ {t} : calls'[u] = calls[u]
      /\ calls' = [calls EXCEPT ![t] = r]
  BY DEF SetTop, CallsOK, Depth
<1> HIDE DEF r
<1>4. CallsOK'
  BY <1>2, <1>3 DEF CallsOK
<1>5. Kept(Threads \ {t})
  BY <1>3 DEF Kept
<1>6. Changed(t, c)
  BY <1>2, <1>3 DEF Changed
<1> QED
  BY <1>4, <1>5, <1>6

\* The innermost call of t returns.
Returned(t) ==
  /\ Len(calls'[t]) = Len(calls[t]) - 1
  /\ \A i \in 1 .. Len(calls'[t]) : calls'[t][i] = calls[t][i]
  /\ calls'[t] = <<>> <=> Len(calls[t]) = 1

LEMMA Returns ==
  ASSUME CallsOK, NEW t \in Threads, calls[t] # <<>>, Return(t)
  PROVE  CallsOK' /\ Kept(Threads \ {t}) /\ Returned(t)
<1> DEFINE s == calls[t]
           r == SubSeq(s, 1, Len(s) - 1)
<1>1. s \in Seq(Call)
  BY DEF CallsOK
<1>2. /\ r \in Seq(Call) /\ Len(r) = Len(s) - 1 /\ (r = <<>> <=> Len(s) = 1)
      /\ \A i \in 1 .. Len(r) : r[i] = s[i]
  BY <1>1, Pop
<1>3. /\ calls'[t] = r
      /\ \A u \in Threads \ {t} : calls'[u] = calls[u]
      /\ calls' = [calls EXCEPT ![t] = r]
  BY DEF Return, CallsOK
<1> HIDE DEF r
<1>4. Len(s) \in Nat /\ Len(s) <= MaxDepth /\ MaxDepth \in Nat
  BY <1>1, Innermost, BoundAssumption DEF CallsOK
<1>5. CallsOK'
  BY <1>2, <1>3, <1>4 DEF CallsOK
<1>6. Kept(Threads \ {t})
  BY <1>3 DEF Kept
<1>7. Returned(t)
  BY <1>2, <1>3 DEF Returned
<1> QED
  BY <1>5, <1>6, <1>7

\* All calls of t are abandoned.
LEMMA Abandons ==
  ASSUME CallsOK, NEW t \in Threads, calls' = [calls EXCEPT ![t] = <<>>]
  PROVE  /\ CallsOK' /\ Kept(Threads \ {t})
         /\ calls'[t] = <<>> /\ Len(calls'[t]) = 0
<1>1. <<>> \in Seq(Call) /\ Len(<<>>) = 0
  BY EmptySeq
<1>2. /\ calls'[t] = <<>>
      /\ \A u \in Threads \ {t} : calls'[u] = calls[u]
      /\ calls' \in [Threads -> Seq(Call)]
  BY <1>1 DEF CallsOK
<1>3. CallsOK'
  BY <1>1, <1>2, BoundAssumption DEF CallsOK
<1>4. Kept(Threads \ {t})
  BY <1>2 DEF Kept
<1> QED
  BY <1>1, <1>2, <1>3, <1>4
-----------------------------------------------------------------------------
(***************************************************************************)
(* The shape of each step of a call.                                       *)
(***************************************************************************)

Typed ==
  /\ CallsOK
  /\ desc \in Errors \cup {None}
  /\ answer \in [Threads -> {"none", "array", "false"}]
  /\ warned \in [Threads -> BOOLEAN]

\* An error of a call in progress, or of one about to be.
LEMMA ErrorType ==
  ASSUME NEW t \in Threads, NEW d \in 1 .. MaxDepth, NEW in \in {"walk", "child"}
  PROVE  Error(t, d, in) \in Errors
  BY DEF Error, Errors

\* The innermost call, if there is one.
LEMMA TopFacts ==
  ASSUME CallsOK, NEW t \in Threads, calls[t] # <<>>
  PROVE  /\ Depth(t) = Len(calls[t])
         /\ Len(calls[t]) \in 1 .. MaxDepth
         /\ Top(t) = calls[t][Len(calls[t])]
         /\ Top(t) \in Call
<1>1. calls[t] \in Seq(Call) /\ Len(calls[t]) <= MaxDepth /\ MaxDepth \in Nat
  BY BoundAssumption DEF CallsOK
<1>2. Len(calls[t]) \in 1 .. MaxDepth /\ calls[t][Len(calls[t])] \in Call
  BY <1>1, Innermost
<1> QED
  BY <1>2 DEF Depth, Top

\* A call is entered by a script that runs, or by one inside a report.
LEMMA BeginShape ==
  ASSUME Typed, NEW t \in Threads, NEW fn \in PhpFunctions,
         NEW pc \in {"walk", "failed"},
         \/ Begin(t, fn) /\ pc = "walk"
         \/ BeginFails(t, fn) /\ pc = "failed"
  PROVE  LET c == NewCall(fn, pc, IF pc = "walk" THEN "held" ELSE "none")
         IN  /\ loaded /\ Len(calls[t]) < MaxDepth /\ Len(calls[t]) \in Nat
             /\ calls[t] # <<>> => calls[t][Len(calls[t])].pc = "report"
             /\ CallsOK' /\ Kept(Threads \ {t}) /\ Entered(t, c)
             /\ Outermost(t) /\ UNCHANGED handleVars
             /\ desc' = IF pc = "walk" THEN desc ELSE Error(t, Len(calls[t]) + 1, "walk")
<1> DEFINE c == NewCall(fn, pc, IF pc = "walk" THEN "held" ELSE "none")
<1>1. c \in Call
  BY DEF NewCall, Call
<1>2. MayCall(t)
  BY DEF Begin, BeginFails
<1>3. loaded /\ Len(calls[t]) < MaxDepth /\ Len(calls[t]) \in Nat
  BY <1>2, Innermost DEF MayCall, Depth, Typed, CallsOK
<1>4. calls[t] # <<>> => calls[t][Len(calls[t])].pc = "report"
  BY <1>2 DEF MayCall, Top, Depth
<1>5. PICK others \in {calls, Replaced} :
        calls' = [others EXCEPT ![t] = Append(others[t], c)]
  <2>1. CASE Begin(t, fn) /\ pc = "walk"
    BY <2>1 DEF Begin
  <2>2. CASE BeginFails(t, fn) /\ pc = "failed"
    BY <2>2 DEF BeginFails
  <2> QED
    BY <2>1, <2>2
<1>6. CallsOK' /\ Kept(Threads \ {t}) /\ Entered(t, c)
  BY <1>1, <1>3, <1>5, Enters DEF Typed
<1>7. Outermost(t) /\ UNCHANGED handleVars
  BY DEF Begin, BeginFails
<1>8. desc' = IF pc = "walk" THEN desc ELSE Error(t, Len(calls[t]) + 1, "walk")
  BY DEF Begin, BeginFails, Depth
<1> QED
  BY <1>3, <1>4, <1>6, <1>7, <1>8

\* A failed walk lets go of the list and is described.
LEMMA WalkFailsShape ==
  ASSUME Typed, NEW t \in Threads, WalkFails(t)
  PROVE  /\ calls[t] # <<>> /\ calls[t][Len(calls[t])].pc = "walk"
         /\ CallsOK' /\ Kept(Threads \ {t})
         /\ Changed(t, [Top(t) EXCEPT !.pc = "failed", !.list = "none"])
         /\ Top(t) \in Call
         /\ desc' = Error(t, Len(calls[t]), "walk") /\ desc' \in Errors
         /\ UNCHANGED <<handleVars, answer, warned>>
<1>1. /\ calls[t] # <<>> /\ Top(t).pc = "walk"
      /\ SetTop(t, [Top(t) EXCEPT !.pc = "failed", !.list = "none"])
      /\ desc' = Error(t, Depth(t), "walk")
      /\ UNCHANGED <<handleVars, answer, warned>>
  BY DEF WalkFails, InTop
<1>2. [Top(t) EXCEPT !.pc = "failed", !.list = "none"] \in Call
  BY <1>1, TopFacts DEF Typed, Call
<1>3. /\ CallsOK' /\ Kept(Threads \ {t})
      /\ Changed(t, [Top(t) EXCEPT !.pc = "failed", !.list = "none"])
  BY <1>1, <1>2, Changes DEF Typed
<1> QED
  BY <1>1, <1>3, TopFacts, ErrorType DEF Typed

\* The description is copied and the warning raised.
LEMMA DescribeShape ==
  ASSUME Typed, NEW t \in Threads, Describe(t)
  PROVE  /\ calls[t] # <<>> /\ calls[t][Len(calls[t])].pc = "failed"
         /\ CallsOK' /\ Kept(Threads \ {t})
         /\ Changed(t, [Top(t) EXCEPT !.pc = "report", !.buffer = desc])
         /\ Top(t) \in Call
         /\ warned' = IF Len(calls[t]) = 1 THEN [warned EXCEPT ![t] = TRUE] ELSE warned
         /\ UNCHANGED <<handleVars, desc, answer>>
<1>1. /\ calls[t] # <<>> /\ Top(t).pc = "failed"
      /\ SetTop(t, [Top(t) EXCEPT !.pc = "report", !.buffer = desc])
      /\ warned' = IF Depth(t) = 1 THEN [warned EXCEPT ![t] = TRUE] ELSE warned
      /\ UNCHANGED <<handleVars, desc, answer>>
  BY DEF Describe, InTop
<1>2. [Top(t) EXCEPT !.pc = "report", !.buffer = desc] \in Call
  BY <1>1, TopFacts DEF Typed, Call
<1>3. /\ CallsOK' /\ Kept(Threads \ {t})
      /\ Changed(t, [Top(t) EXCEPT !.pc = "report", !.buffer = desc])
  BY <1>1, <1>2, Changes DEF Typed
<1> QED
  BY <1>1, <1>3, TopFacts DEF Typed

\* A call that is done with its walk, or with its report, returns.
LEMMA ReturnShape ==
  ASSUME Typed, NEW t \in Threads, NEW pc \in {"walk", "report"},
         \/ WalkDone(t) /\ pc = "walk"
         \/ ReturnFalse(t) /\ pc = "report"
  PROVE  /\ calls[t] # <<>> /\ calls[t][Len(calls[t])].pc = pc
         /\ Len(calls[t]) \in Nat
         /\ CallsOK' /\ Kept(Threads \ {t}) /\ Returned(t)
         /\ answer' = IF Len(calls[t]) = 1
                        THEN [answer EXCEPT ![t] = IF pc = "walk" THEN "array" ELSE "false"]
                        ELSE answer
         /\ UNCHANGED <<handleVars, desc, warned>>
<1>1. /\ calls[t] # <<>> /\ Top(t).pc = pc /\ Return(t)
      /\ answer' = IF Depth(t) = 1
                     THEN [answer EXCEPT ![t] = IF pc = "walk" THEN "array" ELSE "false"]
                     ELSE answer
      /\ UNCHANGED <<handleVars, desc, warned>>
  BY DEF WalkDone, ReturnFalse, InTop
<1>2. CallsOK' /\ Kept(Threads \ {t}) /\ Returned(t)
  BY <1>1, Returns DEF Typed
<1>3. /\ Depth(t) = Len(calls[t]) /\ Len(calls[t]) \in Nat
      /\ Top(t) = calls[t][Len(calls[t])]
  BY <1>1, TopFacts DEF Typed
<1> QED
  BY <1>1, <1>2, <1>3
-----------------------------------------------------------------------------
(***************************************************************************)
(* The inductive invariant, of any number of threads.                      *)
(***************************************************************************)

Inv == Typed /\ IInv

\* What IInv says of one thread, now and after a step.
OfThread(t) ==
  /\ \A i \in 1 .. Len(calls[t]) :
       /\ i < Len(calls[t]) => calls[t][i].pc = "report"
       /\ calls[t][i].list = "none" <=> calls[t][i].pc # "walk"
  /\ calls[t] # <<>> =>
       /\ loaded
       /\ answer[t] = "none"
       /\ warned[t] <=> calls[t][1].pc = "report"

LEMMA IInvOfThreads ==
  IInv <=> /\ \A t \in Threads : OfThread(t)
           /\ loaded <=> g_zfs = "open"
           /\ handles = IF g_zfs = "open" THEN 1 ELSE 0
  BY DEF IInv, OnlyTopWalks, Lifecycle, AnswerPending, OfThread, Depth

\* The steps of one thread leave the others as IInv wants them.
LEMMA OthersKept ==
  ASSUME Typed, NEW t \in Threads, NEW u \in Threads \ {t}, OfThread(u),
         Kept(Threads \ {t}), loaded' = loaded,
         answer'[u] = answer[u], warned'[u] = warned[u]
  PROVE  OfThread(u)'
<1>1. /\ Len(calls[u]) \in Nat
      /\ calls[u] # <<>> => 1 \in 1 .. Len(calls[u])
  BY Innermost DEF Typed, CallsOK
<1>2. /\ Len(calls'[u]) = Len(calls[u])
      /\ calls'[u] = <<>> <=> calls[u] = <<>>
      /\ \A i \in 1 .. Len(calls[u]) :
           /\ calls'[u][i].pc = calls[u][i].pc
           /\ calls'[u][i].list = "none" <=> calls[u][i].list = "none"
  BY DEF Kept
<1> QED
  BY <1>1, <1>2 DEF OfThread

LEMMA InvInit == Init => Inv
<1> SUFFICES ASSUME Init PROVE Inv
  OBVIOUS
<1>1. <<>> \in Seq(Call) /\ Len(<<>>) = 0
  BY EmptySeq
<1>2. \A t \in Threads : calls[t] = <<>> /\ Len(calls[t]) = 0
  BY <1>1 DEF Init
<1>3. Typed
  BY <1>1, <1>2, BoundAssumption DEF Init, Typed, CallsOK
<1>4. \A t \in Threads : OfThread(t)
  <2> TAKE t \in Threads
  <2>1. \A i \in 1 .. 0 : FALSE
    OBVIOUS
  <2>2. 1 .. Len(calls[t]) = 1 .. 0 /\ calls[t] = <<>>
    BY <1>2
  <2> QED
    BY <2>1, <2>2 DEF OfThread
<1>5. IInv
  BY <1>4, IInvOfThreads DEF Init
<1> QED
  BY <1>3, <1>5 DEF Inv

LEMMA InvStep == Inv /\ [Next]_vars => Inv'
<1> SUFFICES ASSUME Inv, [Next]_vars PROVE Inv'
  OBVIOUS
<1>0. Typed /\ (\A t \in Threads : OfThread(t)) /\ IInv
  BY IInvOfThreads DEF Inv
<1>a. ASSUME Typed', \A t \in Threads : OfThread(t)', UNCHANGED handleVars
      PROVE  Inv'
  <2>1. (loaded <=> g_zfs = "open")' /\ (handles = IF g_zfs = "open" THEN 1 ELSE 0)'
    BY <1>0, <1>a, IInvOfThreads DEF handleVars
  <2> QED
    BY <1>a, <2>1 DEF Inv, IInv, OnlyTopWalks, Lifecycle, AnswerPending, OfThread, Depth
<1>1. CASE Module
  <2>1. UNCHANGED <<calls, answer, warned>>
    BY <1>1 DEF Module, ModuleStart, ModuleStartFails, ModuleShutdown
  <2>2. Typed'
    BY <1>0, <1>1, <2>1 DEF Module, ModuleStart, ModuleStartFails, ModuleShutdown, Typed, CallsOK
  <2>3. /\ (loaded <=> g_zfs = "open") /\ handles = IF g_zfs = "open" THEN 1 ELSE 0
    BY <1>0, IInvOfThreads
  <2>4. (loaded <=> g_zfs = "open")' /\ (handles = IF g_zfs = "open" THEN 1 ELSE 0)'
    BY <1>1, <2>3 DEF Module, ModuleStart, ModuleStartFails, ModuleShutdown
  <2>5. \A t \in Threads : calls[t] # <<>> => loaded'
    BY <1>0, <1>1 DEF Module, ModuleStart, ModuleStartFails, ModuleShutdown, OfThread
  <2>6. \A t \in Threads : OfThread(t)'
    BY <1>0, <2>1, <2>5 DEF OfThread
  <2> QED
    BY <2>2, <2>4, <2>6 DEF Inv, IInv, OnlyTopWalks, Lifecycle, AnswerPending, OfThread, Depth
<1>2. ASSUME NEW t \in Threads, NEW fn \in PhpFunctions, NEW pc \in {"walk", "failed"},
             \/ Begin(t, fn) /\ pc = "walk"
             \/ BeginFails(t, fn) /\ pc = "failed"
      PROVE  Inv'
  <2> DEFINE c == NewCall(fn, pc, IF pc = "walk" THEN "held" ELSE "none")
             n == Len(calls[t])
  <2>1. /\ loaded /\ n < MaxDepth /\ n \in Nat
        /\ calls[t] # <<>> => calls[t][n].pc = "report"
        /\ CallsOK' /\ Kept(Threads \ {t}) /\ Entered(t, c)
        /\ Outermost(t) /\ UNCHANGED handleVars
        /\ desc' = IF pc = "walk" THEN desc ELSE Error(t, n + 1, "walk")
    BY <1>0, <1>2, BeginShape
  <2>2. c.pc = pc /\ (c.list = "none" <=> pc # "walk")
    BY DEF NewCall
  <2> HIDE DEF c
  <2>3. /\ Len(calls'[t]) = n + 1 /\ calls'[t] # <<>> /\ calls'[t][n + 1] = c
        /\ \A i \in 1 .. n :
             /\ calls'[t][i].pc = calls[t][i].pc
             /\ calls'[t][i].list = "none" <=> calls[t][i].list = "none"
    BY <2>1 DEF Entered
  <2>4. n = 0 <=> calls[t] = <<>>
    BY <1>0, Innermost DEF Typed, CallsOK
  <2>5. desc' \in Errors \cup {None}
    <3>1. n + 1 \in 1 .. MaxDepth
      BY <2>1, BoundAssumption
    <3>2. Error(t, n + 1, "walk") \in Errors
      BY <3>1, ErrorType
    <3> QED
      BY <1>0, <2>1, <3>2 DEF Typed
  <2>6. /\ answer' \in [Threads -> {"none", "array", "false"}]
        /\ warned' \in [Threads -> BOOLEAN]
        /\ \A u \in Threads \ {t} : answer'[u] = answer[u] /\ warned'[u] = warned[u]
        /\ calls[t] = <<>> => answer'[t] = "none" /\ warned'[t] = FALSE
        /\ calls[t] # <<>> => answer' = answer /\ warned' = warned
    BY <1>0, <2>1 DEF Outermost, Typed
  <2>7. Typed'
    BY <2>1, <2>5, <2>6 DEF Typed
  <2>8. loaded' = loaded
    BY <2>1 DEF handleVars
  <2>9. \A u \in Threads \ {t} : OfThread(u)'
    BY <1>0, <2>1, <2>6, <2>8, OthersKept
  <2>10. \A i \in 1 .. Len(calls'[t]) :
           /\ i < Len(calls'[t]) => calls'[t][i].pc = "report"
           /\ calls'[t][i].list = "none" <=> calls'[t][i].pc # "walk"
    <3> SUFFICES ASSUME NEW i \in 1 .. n + 1
                 PROVE  /\ i < n + 1 => calls'[t][i].pc = "report"
                        /\ calls'[t][i].list = "none" <=> calls'[t][i].pc # "walk"
      BY <2>3
    <3>1. CASE i = n + 1
      BY <2>2, <2>3, <2>1, <3>1
    <3>2. CASE i = n
      BY <1>0, <2>1, <2>3, <2>4, <3>2 DEF OfThread
    <3>3. CASE i < n
      BY <1>0, <2>1, <2>3, <3>3 DEF OfThread
    <3> QED
      BY <2>1, <3>1, <3>2, <3>3
  <2>11. loaded' /\ answer'[t] = "none" /\ (warned'[t] <=> calls'[t][1].pc = "report")
    <3>1. CASE calls[t] = <<>>
      BY <2>1, <2>2, <2>3, <2>4, <2>6, <2>8, <3>1
    <3>2. CASE calls[t] # <<>>
      <4>1. 1 \in 1 .. n
        BY <2>1, <2>4, <3>2
      <4> QED
        BY <1>0, <2>1, <2>3, <2>6, <2>8, <3>2, <4>1 DEF OfThread
    <3> QED
      BY <3>1, <3>2
  <2>12. OfThread(t)'
    BY <2>10, <2>11 DEF OfThread
  <2> QED
    BY <1>a, <2>1, <2>7, <2>9, <2>12
<1>3. ASSUME NEW t \in Threads, ChildFails(t) PROVE Inv'
  <2>1. calls[t] # <<>> /\ UNCHANGED <<handleVars, calls, answer, warned>>
        /\ desc' = Error(t, Depth(t), "child")
    BY <1>3 DEF ChildFails, InTop
  <2>2. desc' \in Errors
    BY <1>0, <2>1, TopFacts, ErrorType DEF Typed
  <2>3. Typed'
    BY <1>0, <2>1, <2>2 DEF Typed, CallsOK
  <2>4. \A u \in Threads : OfThread(u)'
    BY <1>0, <2>1 DEF OfThread, handleVars
  <2> QED
    BY <1>a, <2>1, <2>3, <2>4
<1>4. ASSUME NEW t \in Threads, NEW c \in Call,
             calls[t] # <<>>, calls[t][Len(calls[t])].pc # "report",
             CallsOK', Kept(Threads \ {t}), Changed(t, c),
             c.pc # "walk", c.list = "none",
             desc' \in Errors \cup {None},
             UNCHANGED <<handleVars, answer>>,
             warned' = IF Len(calls[t]) = 1 /\ c.pc = "report"
                         THEN [warned EXCEPT ![t] = TRUE] ELSE warned
      PROVE  Inv'
  <2> DEFINE n == Len(calls[t])
  <2>1. n \in Nat /\ n # 0
    BY <1>0, <1>4, Innermost DEF Typed, CallsOK
  <2>2. /\ Len(calls'[t]) = n /\ calls'[t] # <<>> /\ calls'[t][n] = c
        /\ \A i \in 1 .. n : i # n => calls'[t][i] = calls[t][i]
    BY <1>4 DEF Changed
  <2>3. /\ warned' \in [Threads -> BOOLEAN]
        /\ \A u \in Threads \ {t} : warned'[u] = warned[u]
        /\ warned'[t] = IF n = 1 /\ c.pc = "report" THEN TRUE ELSE warned[t]
    BY <1>0, <1>4 DEF Typed
  <2>4. Typed'
    BY <1>0, <1>4, <2>3 DEF Typed
  <2>5. loaded' = loaded /\ answer' = answer
    BY <1>4 DEF handleVars
  <2>6. \A u \in Threads \ {t} : OfThread(u)'
    BY <1>0, <1>4, <2>3, <2>5, OthersKept
  <2>7. \A i \in 1 .. n :
          /\ i < n => calls'[t][i].pc = "report"
          /\ calls'[t][i].list = "none" <=> calls'[t][i].pc # "walk"
    <3>1. ASSUME NEW i \in 1 .. n, i # n
          PROVE  /\ calls'[t][i].pc = "report"
                 /\ calls'[t][i].list = "none" <=> calls'[t][i].pc # "walk"
      BY <1>0, <2>1, <2>2, <3>1 DEF OfThread
    <3> QED
      BY <1>4, <2>2, <3>1
  <2>8. warned'[t] <=> calls'[t][1].pc = "report"
    <3>1. warned[t] <=> calls[t][1].pc = "report"
      BY <1>0, <1>4 DEF OfThread
    <3>2. CASE n = 1
      BY <1>4, <2>2, <2>3, <3>1, <3>2
    <3>3. CASE n # 1
      <4>1. 1 \in 1 .. n
        BY <2>1
      <4>2. calls'[t][1] = calls[t][1]
        BY <2>2, <3>3, <4>1
      <4> QED
        BY <2>3, <3>1, <3>3, <4>2
    <3> QED
      BY <3>2, <3>3
  <2>9. loaded /\ answer[t] = "none"
    BY <1>0, <1>4 DEF OfThread
  <2>10. OfThread(t)'
    BY <2>2, <2>5, <2>7, <2>8, <2>9 DEF OfThread
  <2> QED
    BY <1>a, <1>4, <2>4, <2>6, <2>10
<1>5. ASSUME NEW t \in Threads, WalkFails(t) PROVE Inv'
  <2> DEFINE c == [Top(t) EXCEPT !.pc = "failed", !.list = "none"]
  <2>1. /\ calls[t] # <<>> /\ calls[t][Len(calls[t])].pc = "walk"
        /\ CallsOK' /\ Kept(Threads \ {t}) /\ Changed(t, c)
        /\ Top(t) \in Call
        /\ desc' \in Errors
        /\ UNCHANGED <<handleVars, answer, warned>>
    BY <1>0, <1>5, WalkFailsShape
  <2>2. c \in Call /\ c.pc = "failed" /\ c.list = "none"
    BY <2>1 DEF Call
  <2> HIDE DEF c
  <2> QED
    BY <1>4, <2>1, <2>2
<1>6. ASSUME NEW t \in Threads, Describe(t) PROVE Inv'
  <2> DEFINE c == [Top(t) EXCEPT !.pc = "report", !.buffer = desc]
  <2>1. /\ calls[t] # <<>> /\ calls[t][Len(calls[t])].pc = "failed"
        /\ CallsOK' /\ Kept(Threads \ {t}) /\ Changed(t, c)
        /\ Top(t) \in Call
        /\ warned' = IF Len(calls[t]) = 1 THEN [warned EXCEPT ![t] = TRUE] ELSE warned
        /\ UNCHANGED <<handleVars, desc, answer>>
    BY <1>0, <1>6, DescribeShape
  <2>2. Top(t).list = "none"
    <3>1. Len(calls[t]) \in 1 .. Len(calls[t]) /\ Top(t) = calls[t][Len(calls[t])]
      BY <1>0, <2>1, Innermost DEF Typed, CallsOK, Top, Depth
    <3> QED
      BY <1>0, <2>1, <3>1 DEF OfThread
  <2>3. c \in Call /\ c.pc = "report" /\ c.list = "none"
    BY <1>0, <2>1, <2>2 DEF Call, Typed
  <2> HIDE DEF c
  <2>4. desc' \in Errors \cup {None}
    BY <1>0, <2>1 DEF Typed
  <2> QED
    BY <1>4, <2>1, <2>3, <2>4
<1>7. ASSUME NEW t \in Threads, NEW pc \in {"walk", "report"},
             \/ WalkDone(t) /\ pc = "walk"
             \/ ReturnFalse(t) /\ pc = "report"
      PROVE  Inv'
  <2> DEFINE n == Len(calls[t])
  <2>1. /\ calls[t] # <<>> /\ n \in Nat
        /\ CallsOK' /\ Kept(Threads \ {t}) /\ Returned(t)
        /\ answer' = IF n = 1
                       THEN [answer EXCEPT ![t] = IF pc = "walk" THEN "array" ELSE "false"]
                       ELSE answer
        /\ UNCHANGED <<handleVars, desc, warned>>
    BY <1>0, <1>7, ReturnShape
  <2>2. /\ answer' \in [Threads -> {"none", "array", "false"}]
        /\ \A u \in Threads \ {t} : answer'[u] = answer[u]
        /\ n # 1 => answer'[t] = answer[t]
    BY <1>0, <2>1 DEF Typed
  <2>3. Typed'
    BY <1>0, <2>1, <2>2 DEF Typed
  <2>4. loaded' = loaded /\ warned' = warned
    BY <2>1 DEF handleVars
  <2>5. \A u \in Threads \ {t} : OfThread(u)'
    BY <1>0, <2>1, <2>2, <2>4, OthersKept
  <2>6. /\ Len(calls'[t]) = n - 1
        /\ \A i \in 1 .. n - 1 : calls'[t][i] = calls[t][i]
        /\ calls'[t] = <<>> <=> n = 1
    BY <2>1 DEF Returned
  <2>7. n # 0
    BY <1>0, <2>1, Innermost DEF Typed, CallsOK
  <2>8. \A i \in 1 .. n - 1 :
          /\ i < n - 1 => calls'[t][i].pc = "report"
          /\ calls'[t][i].list = "none" <=> calls'[t][i].pc # "walk"
    BY <1>0, <2>1, <2>6 DEF OfThread
  <2>9. ASSUME n # 1
        PROVE  loaded' /\ answer'[t] = "none" /\ (warned'[t] <=> calls'[t][1].pc = "report")
    <3>0. n \in Nat /\ n # 0
      BY <2>1, <2>7
    <3>1. 1 \in 1 .. n - 1
      <4> HIDE DEF n
      <4> QED
        BY <2>9, <3>0
    <3>2. calls'[t][1] = calls[t][1]
      BY <2>6, <3>1
    <3> QED
      BY <1>0, <2>1, <2>2, <2>4, <2>9, <3>2 DEF OfThread
  <2>10. OfThread(t)'
    BY <2>6, <2>8, <2>9 DEF OfThread
  <2> QED
    BY <1>a, <2>1, <2>3, <2>5, <2>10
<1>8. ASSUME NEW t \in Threads, Bailout(t) PROVE Inv'
  <2>1. calls' = [calls EXCEPT ![t] = <<>>] /\ UNCHANGED <<handleVars, desc, answer, warned>>
    BY <1>8 DEF Bailout
  <2>2. CallsOK' /\ Kept(Threads \ {t}) /\ calls'[t] = <<>> /\ Len(calls'[t]) = 0
    BY <1>0, <2>1, Abandons DEF Typed
  <2>3. Typed'
    BY <1>0, <2>1, <2>2 DEF Typed
  <2>4. \A u \in Threads \ {t} : OfThread(u)'
    BY <1>0, <2>1, <2>2, OthersKept DEF handleVars
  <2>5. OfThread(t)'
    BY <2>2 DEF OfThread
  <2> QED
    BY <1>a, <2>1, <2>3, <2>4, <2>5
<1>9. CASE UNCHANGED vars
  <2>1. Typed'
    BY <1>0, <1>9 DEF vars, Typed, CallsOK
  <2>2. \A t \in Threads : OfThread(t)'
    BY <1>0, <1>9 DEF vars, handleVars, OfThread
  <2> QED
    BY <1>9, <1>a, <2>1, <2>2 DEF vars
<1>10. ASSUME NEW t \in Threads, Misuse(t) PROVE Inv'
  <2>1. UNCHANGED <<handleVars, desc, calls>>
    BY <1>10 DEF Misuse
  <2>2. /\ answer' \in [Threads -> {"none", "array", "false"}]
        /\ warned' \in [Threads -> BOOLEAN]
        /\ \A u \in Threads : calls[u] # <<>> => answer'[u] = answer[u] /\ warned'[u] = warned[u]
    BY <1>0, <1>10 DEF Misuse, Typed
  <2>3. Typed'
    BY <1>0, <2>1, <2>2 DEF Typed, CallsOK
  <2>4. \A u \in Threads : OfThread(u)'
    BY <1>0, <2>1, <2>2 DEF OfThread, handleVars
  <2> QED
    BY <1>a, <2>1, <2>3, <2>4
<1> QED
  BY <1>1, <1>2, <1>3, <1>5, <1>6, <1>7, <1>8, <1>9, <1>10 DEF Next

\* However modules are started and stopped, a call finds the one handle open.
THEOREM HandleIsLive == Spec => []HandleLive
<1>1. Inv => HandleLive
  BY DEF Inv, IInv, Lifecycle, HandleLive
<1> QED
  BY <1>1, InvInit, InvStep, PTL DEF Spec
-----------------------------------------------------------------------------
(***************************************************************************)
(* The count of walks: those in progress, and those that were aborted.     *)
(***************************************************************************)

IsWalker(t) == InTop(t, "walk") /\ Top(t).fn = "zpool_list"

Counted ==
  /\ walks \in Nat /\ bailouts \in Nat
  /\ IsFiniteSet(Walkers)
  /\ WalksCounted

\* A thread that is not concerned walks if it did.
LEMMA OtherWalkers ==
  ASSUME NEW t \in Threads, NEW u \in Threads \ {t}, Typed, Kept(Threads \ {t})
  PROVE  IsWalker(u)' <=> IsWalker(u)
<1>1. calls[u] # <<>> => Len(calls[u]) \in 1 .. Len(calls[u])
  BY Innermost DEF Typed, CallsOK
<1> QED
  BY <1>1 DEF Kept, IsWalker, InTop, Top, Depth

\* A thread stops walking, and is counted out or, aborted, is not.
LEMMA WalkerLeaves ==
  ASSUME NEW t \in Threads, Typed, Counted, Kept(Threads \ {t}), ~ IsWalker(t)',
         \/ IsWalker(t) /\ walks' = walks - 1 /\ bailouts' = bailouts
         \/ IsWalker(t) /\ walks' = walks /\ bailouts' = bailouts + 1
         \/ ~ IsWalker(t) /\ walks' = walks /\ bailouts' \in {bailouts, bailouts + 1}
  PROVE  Counted'
<1>1. Walkers' = Walkers \ {t}
  BY OtherWalkers DEF Walkers, IsWalker
<1>2. /\ IsFiniteSet(Walkers \ {t})
      /\ Cardinality(Walkers \ {t}) = IF t \in Walkers THEN Cardinality(Walkers) - 1
                                                      ELSE Cardinality(Walkers)
  BY FS_RemoveElement DEF Counted
<1>3. Cardinality(Walkers) \in Nat /\ Cardinality(Walkers \ {t}) \in Nat
  BY <1>2, FS_CardinalityType DEF Counted
<1>4. IsWalker(t) <=> t \in Walkers
  BY DEF Walkers, IsWalker
<1> HIDE DEF Walkers
<1> QED
  BY <1>1, <1>2, <1>3, <1>4 DEF Counted, WalksCounted

LEMMA CountInit == Init => Counted
<1> SUFFICES ASSUME Init PROVE Counted
  OBVIOUS
<1>1. Walkers = {}
  BY DEF Init, Walkers, InTop
<1> QED
  BY <1>1, FS_EmptySet DEF Init, Counted, WalksCounted

LEMMA CountStep == Inv /\ Counted /\ [Next]_vars => Counted'
<1> SUFFICES ASSUME Inv, Counted, [Next]_vars PROVE Counted'
  OBVIOUS
<1>0. Typed /\ \A t \in Threads : OfThread(t)
  BY IInvOfThreads DEF Inv
<1>1. CASE UNCHANGED <<calls, walks, bailouts>>
  BY <1>1 DEF Counted, WalksCounted, Walkers, InTop, Top, Depth
<1>2. CASE ModuleShutdown
  <2>1. Walkers' = {}
    BY <1>2 DEF ModuleShutdown, Walkers, InTop
  <2> QED
    BY <1>2, <2>1, FS_EmptySet DEF ModuleShutdown, Counted, WalksCounted
<1>3. ASSUME NEW t \in Threads, NEW fn \in PhpFunctions, NEW pc \in {"walk", "failed"},
             \/ Begin(t, fn) /\ pc = "walk"
             \/ BeginFails(t, fn) /\ pc = "failed"
      PROVE  Counted'
  <2> DEFINE c == NewCall(fn, pc, IF pc = "walk" THEN "held" ELSE "none")
  <2>1. /\ calls[t] # <<>> => calls[t][Len(calls[t])].pc = "report"
        /\ Kept(Threads \ {t}) /\ Entered(t, c)
    BY <1>0, <1>3, BeginShape
  <2>2. c.pc = pc /\ c.fn = fn
    BY DEF NewCall
  <2> HIDE DEF c
  <2>3. ~ IsWalker(t) /\ (IsWalker(t)' <=> pc = "walk" /\ fn = "zpool_list")
    BY <2>1, <2>2 DEF Entered, IsWalker, InTop, Top, Depth
  <2>4. /\ walks' = IF pc = "walk" /\ fn = "zpool_list" THEN walks + 1 ELSE walks
        /\ bailouts' = bailouts
    BY <1>3 DEF Begin, BeginFails
  <2>5. CASE pc = "walk" /\ fn = "zpool_list"
    <3>1. Walkers' = Walkers \cup {t} /\ t \notin Walkers
      BY <1>0, <2>1, <2>3, <2>5, OtherWalkers DEF Walkers, IsWalker
    <3>2. /\ IsFiniteSet(Walkers \cup {t})
          /\ Cardinality(Walkers \cup {t}) = Cardinality(Walkers) + 1
          /\ Cardinality(Walkers) \in Nat
      BY <3>1, FS_AddElement, FS_CardinalityType DEF Counted
    <3> HIDE DEF Walkers
    <3> QED
      BY <2>4, <2>5, <3>1, <3>2 DEF Counted, WalksCounted
  <2>6. CASE ~ (pc = "walk" /\ fn = "zpool_list")
    BY <1>0, <2>1, <2>3, <2>4, <2>6, WalkerLeaves
  <2> QED
    BY <2>5, <2>6
<1>4. ASSUME NEW t \in Threads, WalkFails(t) PROVE Counted'
  <2> DEFINE c == [Top(t) EXCEPT !.pc = "failed", !.list = "none"]
  <2>1. /\ calls[t] # <<>> /\ Top(t) \in Call
        /\ Kept(Threads \ {t}) /\ Changed(t, c)
    BY <1>0, <1>4, WalkFailsShape
  <2>2. c.pc = "failed"
    BY <2>1 DEF Call
  <2> HIDE DEF c
  <2>3. ~ IsWalker(t)'
    BY <2>1, <2>2 DEF Changed, IsWalker, InTop, Top, Depth
  <2>4. /\ walks' = (IF IsWalker(t) THEN walks - 1 ELSE walks)
        /\ bailouts' = bailouts
    BY <1>4 DEF WalkFails, Uncounted, IsWalker
  <2> QED
    BY <1>0, <2>1, <2>3, <2>4, WalkerLeaves
<1>5. ASSUME NEW t \in Threads, Describe(t) PROVE Counted'
  <2> DEFINE c == [Top(t) EXCEPT !.pc = "report", !.buffer = desc]
  <2>1. /\ calls[t] # <<>> /\ Top(t) \in Call
        /\ Kept(Threads \ {t}) /\ Changed(t, c)
    BY <1>0, <1>5, DescribeShape
  <2>2. c.pc = "report"
    BY <2>1 DEF Call
  <2> HIDE DEF c
  <2>3. ~ IsWalker(t)'
    BY <2>1, <2>2 DEF Changed, IsWalker, InTop, Top, Depth
  <2>4. ~ IsWalker(t) /\ walks' = walks /\ bailouts' = bailouts
    BY <1>5 DEF Describe, IsWalker, InTop
  <2> QED
    BY <1>0, <2>1, <2>3, <2>4, WalkerLeaves
<1>6. ASSUME NEW t \in Threads, NEW pc \in {"walk", "report"},
             \/ WalkDone(t) /\ pc = "walk"
             \/ ReturnFalse(t) /\ pc = "report"
      PROVE  Counted'
  <2> DEFINE n == Len(calls[t])
  <2>1. calls[t] # <<>> /\ n \in Nat /\ Kept(Threads \ {t}) /\ Returned(t)
    BY <1>0, <1>6, ReturnShape
  <2>2. /\ Len(calls'[t]) = n - 1
        /\ \A i \in 1 .. n - 1 : calls'[t][i] = calls[t][i]
        /\ calls'[t] = <<>> <=> n = 1
    BY <2>1 DEF Returned
  <2>3. n # 0
    BY <1>0, <2>1, Innermost DEF Typed, CallsOK
  <2>4. ~ InTop(t, "walk")'
    <3> SUFFICES ASSUME calls'[t] # <<>> PROVE calls'[t][n - 1].pc = "report"
      BY <2>2 DEF InTop, Top, Depth
    <3>1. n \in Nat /\ n # 0 /\ n # 1
      BY <2>1, <2>2, <2>3
    <3>2. n - 1 \in 1 .. n - 1 /\ n - 1 \in 1 .. n /\ n - 1 < n
      <4> HIDE DEF n
      <4> QED
        BY <3>1
    <3> QED
      BY <1>0, <2>2, <3>2 DEF OfThread
  <2>5. /\ walks' = (IF IsWalker(t) THEN walks - 1 ELSE walks)
        /\ bailouts' = bailouts
    BY <1>6 DEF WalkDone, ReturnFalse, Uncounted, IsWalker, InTop
  <2>6. ~ IsWalker(t)'
    BY <2>4 DEF IsWalker
  <2> QED
    BY <1>0, <2>1, <2>5, <2>6, WalkerLeaves
<1>7. ASSUME NEW t \in Threads, Bailout(t) PROVE Counted'
  <2>1. Kept(Threads \ {t}) /\ calls'[t] = <<>> /\ walks' = walks
    BY <1>0, <1>7, Abandons DEF Bailout, Typed
  <2>2. ~ IsWalker(t)'
    BY <2>1 DEF IsWalker, InTop
  <2>3. \/ bailouts' = bailouts + 1
        \/ ~ IsWalker(t) /\ bailouts' = bailouts
    BY <1>7 DEF Bailout, IsWalker, InTop
  <2> QED
    BY <1>0, <2>1, <2>2, <2>3, WalkerLeaves
<1>8. CASE \/ ModuleStart \/ ModuleStartFails
           \/ \E t \in Threads : Misuse(t) \/ ChildFails(t)
           \/ UNCHANGED vars
  BY <1>1, <1>8 DEF ModuleStart, ModuleStartFails, Misuse, ChildFails, vars
<1> QED
  BY <1>2, <1>3, <1>4, <1>5, <1>6, <1>7, <1>8 DEF Next, Module

LEMMA CountInv == Spec => [](Inv /\ Counted)
<1>1. Init => Inv /\ Counted
  BY InvInit, CountInit
<1>2. Inv /\ Counted /\ [Next]_vars => Inv' /\ Counted'
  BY InvStep, CountStep
<1> QED
  BY <1>1, <1>2, PTL DEF Spec

\* On any number of threads the handle counts the walks in progress, and none
\* besides but those the engine aborted.
THEOREM WalksAreCounted == Spec => []WalksCounted
<1>1. Counted => WalksCounted
  BY DEF Counted
<1> QED
  BY <1>1, CountInv, PTL

\* Every variable keeps its type, on any number of threads: no walk is counted
\* out that was not counted in, so the handle's count is never negative.
THEOREM TypeCorrect == Spec => []TypeOK
<1> DEFINE Rest == /\ g_zfs \in {"null", "open"} /\ loaded \in BOOLEAN
                   /\ bailouts \in 0 .. MaxBailouts
<1>1. Init => Rest
  <2>1. 0 \in 0 .. MaxBailouts
    BY BoundAssumption
  <2> QED
    BY <2>1 DEF Init
<1>2. Rest /\ [Next]_vars => Rest'
  <2> SUFFICES ASSUME Rest, [Next]_vars PROVE Rest'
    OBVIOUS
  <2>1. CASE Module
    BY <2>1 DEF Module, ModuleStart, ModuleStartFails, ModuleShutdown
  <2>2. ASSUME NEW t \in Threads, Bailout(t) PROVE Rest'
    BY <2>2, BoundAssumption DEF Bailout, handleVars
  <2>3. CASE \/ UNCHANGED vars
             \/ \E t \in Threads :
                  \/ Misuse(t)
                  \/ \E fn \in PhpFunctions : Begin(t, fn) \/ BeginFails(t, fn)
                  \/ ChildFails(t) \/ WalkFails(t) \/ WalkDone(t)
                  \/ Describe(t) \/ ReturnFalse(t)
    BY <2>3 DEF vars, handleVars, Misuse, Begin, BeginFails, ChildFails, WalkFails, WalkDone,
               Describe, ReturnFalse
  <2> QED
    BY <2>1, <2>2, <2>3 DEF Next
<1>3. Inv /\ Counted /\ Rest => TypeOK
  BY DEF Inv, Typed, IInv, Lifecycle, Counted, TypeOK
<1> HIDE DEF Rest
<1> QED
  BY <1>1, <1>2, <1>3, CountInv, PTL DEF Spec
-----------------------------------------------------------------------------
(***************************************************************************)
(* A process with one thread.                                              *)
(***************************************************************************)

OneThread == \A t, u \in Threads : t = u

\* What is true of the calls of one thread that has the handle to itself.
SoloOf(t) ==
  /\ \A i \in 1 .. Len(calls[t]) :
       /\ calls[t][i].list # "lost"
       /\ calls[t][i].pc = "report" => calls[t][i].buffer = Error(t, i, "walk")
  /\ InTop(t, "failed") => desc = Error(t, Len(calls[t]), "walk")

Solo == \A t \in Threads : SoloOf(t)

LEMMA SoloInit == Init => Solo
<1> SUFFICES ASSUME Init, NEW t \in Threads PROVE SoloOf(t)
  BY DEF Solo
<1>1. calls[t] = <<>> /\ Len(<<>>) = 0
  BY EmptySeq DEF Init
<1>2. \A i \in 1 .. 0 : FALSE
  OBVIOUS
<1> QED
  BY <1>1, <1>2 DEF SoloOf, InTop

LEMMA SoloStep ==
  ASSUME OneThread, Inv, Solo, [Next]_vars
  PROVE  Solo'
<1>0. Typed /\ \A t \in Threads : OfThread(t) /\ SoloOf(t)
  BY IInvOfThreads DEF Inv, Solo
<1>a. ASSUME NEW t \in Threads, SoloOf(t)' PROVE Solo'
  <2>1. \A u \in Threads : u = t
    BY DEF OneThread
  <2>2. \A u \in Threads : SoloOf(u)'
    BY <1>a, <2>1
  <2> QED
    BY <2>2 DEF Solo
<1>1. CASE Module
  <2> SUFFICES ASSUME NEW t \in Threads PROVE SoloOf(t)'
    BY DEF Solo
  <2>1. UNCHANGED calls /\ (UNCHANGED desc \/ calls[t] = <<>>)
    BY <1>1 DEF Module, ModuleStart, ModuleStartFails, ModuleShutdown
  <2> QED
    BY <1>0, <2>1 DEF SoloOf, InTop, Top, Depth
<1>2. ASSUME NEW t \in Threads, NEW fn \in PhpFunctions, NEW pc \in {"walk", "failed"},
             \/ Begin(t, fn) /\ pc = "walk"
             \/ BeginFails(t, fn) /\ pc = "failed"
      PROVE  Solo'
  <2> DEFINE c == NewCall(fn, pc, IF pc = "walk" THEN "held" ELSE "none")
             n == Len(calls[t])
  <2>1. /\ n \in Nat
        /\ calls[t] # <<>> => calls[t][n].pc = "report"
        /\ Entered(t, c)
        /\ desc' = IF pc = "walk" THEN desc ELSE Error(t, n + 1, "walk")
    BY <1>0, <1>2, BeginShape
  <2>2. c.pc = pc /\ c.list # "lost"
    BY DEF NewCall
  <2> HIDE DEF c
  <2>3. n = 0 <=> calls[t] = <<>>
    BY <1>0, Innermost DEF Typed, CallsOK
  \* Everything below reports, so it holds no list that could be lost.
  <2>4. \A i \in 1 .. n : calls[t][i].list = "none"
    <3> SUFFICES ASSUME NEW i \in 1 .. n PROVE calls[t][i].list = "none"
      OBVIOUS
    <3>1. CASE i = n
      BY <1>0, <2>1, <2>3, <3>1 DEF OfThread
    <3>2. CASE i < n
      BY <1>0, <3>2 DEF OfThread
    <3> QED
      BY <2>1, <3>1, <3>2
  <2>5. /\ Len(calls'[t]) = n + 1 /\ calls'[t] # <<>> /\ calls'[t][n + 1] = c
        /\ \A i \in 1 .. n : calls'[t][i] = calls[t][i]
    BY <2>1, <2>4 DEF Entered
  <2>6. ASSUME NEW i \in 1 .. n + 1
        PROVE  /\ calls'[t][i].list # "lost"
               /\ calls'[t][i].pc = "report" => calls'[t][i].buffer = Error(t, i, "walk")
    <3>1. CASE i = n + 1
      BY <2>2, <2>5, <3>1
    <3>2. CASE i # n + 1
      <4>1. i \in 1 .. n
        BY <2>1, <3>2
      <4> QED
        BY <1>0, <2>5, <4>1 DEF SoloOf
    <3> QED
      BY <3>1, <3>2
  <2>7. InTop(t, "failed")' => desc' = Error(t, n + 1, "walk")
    BY <2>1, <2>2, <2>5 DEF InTop, Top, Depth
  <2>8. SoloOf(t)'
    BY <2>5, <2>6, <2>7 DEF SoloOf
  <2> QED
    BY <1>a, <2>8
<1>3. ASSUME NEW t \in Threads, ChildFails(t) PROVE Solo'
  <2>1. UNCHANGED calls /\ ~ InTop(t, "failed")
    BY <1>3 DEF ChildFails, InTop
  <2>2. SoloOf(t)'
    BY <1>0, <2>1 DEF SoloOf, InTop, Top, Depth
  <2> QED
    BY <1>a, <2>2
<1>4. ASSUME NEW t \in Threads, NEW c \in Call,
             calls[t] # <<>>, Changed(t, c), c.list = "none",
             c.pc = "report" => c.buffer = Error(t, Len(calls[t]), "walk"),
             c.pc = "failed" => desc' = Error(t, Len(calls[t]), "walk")
      PROVE  Solo'
  <2> DEFINE n == Len(calls[t])
  <2>1. n \in Nat
    BY <1>0, Innermost DEF Typed, CallsOK
  <2>2. /\ Len(calls'[t]) = n /\ calls'[t] # <<>> /\ calls'[t][n] = c
        /\ \A i \in 1 .. n : i # n => calls'[t][i] = calls[t][i]
    BY <1>4 DEF Changed
  <2>3. \A i \in 1 .. n :
          /\ calls'[t][i].list # "lost"
          /\ calls'[t][i].pc = "report" => calls'[t][i].buffer = Error(t, i, "walk")
    BY <1>0, <1>4, <2>2 DEF SoloOf
  <2>4. InTop(t, "failed")' => desc' = Error(t, n, "walk")
    BY <1>4, <2>2 DEF InTop, Top, Depth
  <2>5. SoloOf(t)'
    BY <2>2, <2>3, <2>4 DEF SoloOf
  <2> QED
    BY <1>a, <2>5
<1>5. ASSUME NEW t \in Threads, WalkFails(t) PROVE Solo'
  <2> DEFINE c == [Top(t) EXCEPT !.pc = "failed", !.list = "none"]
  <2>1. /\ calls[t] # <<>> /\ Changed(t, c) /\ Top(t) \in Call
        /\ desc' = Error(t, Len(calls[t]), "walk")
    BY <1>0, <1>5, WalkFailsShape
  <2>2. c \in Call /\ c.pc = "failed" /\ c.list = "none"
    BY <2>1 DEF Call
  <2> HIDE DEF c
  <2> QED
    BY <1>4, <2>1, <2>2
<1>6. ASSUME NEW t \in Threads, Describe(t) PROVE Solo'
  <2> DEFINE c == [Top(t) EXCEPT !.pc = "report", !.buffer = desc]
  <2>1. /\ calls[t] # <<>> /\ calls[t][Len(calls[t])].pc = "failed"
        /\ Changed(t, c) /\ Top(t) \in Call
    BY <1>0, <1>6, DescribeShape
  <2>2. Len(calls[t]) \in 1 .. Len(calls[t]) /\ Top(t) = calls[t][Len(calls[t])]
    BY <1>0, <2>1, Innermost DEF Typed, CallsOK, Top, Depth
  <2>3. Top(t).list = "none"
    BY <1>0, <2>1, <2>2 DEF OfThread
  <2>4. desc = Error(t, Len(calls[t]), "walk")
    BY <1>0, <2>1, <2>2 DEF SoloOf, InTop
  <2>5. c \in Call /\ c.pc = "report" /\ c.list = "none" /\ c.buffer = desc
    BY <1>0, <2>1, <2>3 DEF Call, Typed
  <2> HIDE DEF c
  <2> QED
    BY <1>4, <2>1, <2>4, <2>5
<1>7. ASSUME NEW t \in Threads, NEW pc \in {"walk", "report"},
             \/ WalkDone(t) /\ pc = "walk"
             \/ ReturnFalse(t) /\ pc = "report"
      PROVE  Solo'
  <2> DEFINE n == Len(calls[t])
  <2>1. calls[t] # <<>> /\ n \in Nat /\ CallsOK' /\ Returned(t)
    BY <1>0, <1>7, ReturnShape
  <2>2. /\ Len(calls'[t]) = n - 1
        /\ \A i \in 1 .. n - 1 : calls'[t][i] = calls[t][i]
        /\ calls'[t] = <<>> <=> n = 1
    BY <2>1 DEF Returned
  <2>3. n # 0
    BY <1>0, <2>1, Innermost DEF Typed, CallsOK
  <2>4. \A i \in 1 .. n - 1 :
          /\ calls'[t][i].list # "lost"
          /\ calls'[t][i].pc = "report" => calls'[t][i].buffer = Error(t, i, "walk")
    BY <1>0, <2>1, <2>2 DEF SoloOf
  \* The call below the one that returned is reporting still.
  <2>5. ~ InTop(t, "failed")'
    <3> SUFFICES ASSUME calls'[t] # <<>> PROVE calls'[t][n - 1].pc = "report"
      BY <2>2 DEF InTop, Top, Depth
    <3>1. n \in Nat /\ n # 0 /\ n # 1
      BY <2>1, <2>2, <2>3
    <3>2. n - 1 \in 1 .. n - 1 /\ n - 1 \in 1 .. n /\ n - 1 < n
      <4> HIDE DEF n
      <4> QED
        BY <3>1
    <3> QED
      BY <1>0, <2>2, <3>2 DEF OfThread
  <2>6. SoloOf(t)'
    BY <2>2, <2>4, <2>5 DEF SoloOf
  <2> QED
    BY <1>a, <2>6
<1>8. ASSUME NEW t \in Threads, Bailout(t) PROVE Solo'
  <2>1. calls'[t] = <<>> /\ Len(calls'[t]) = 0
    BY <1>0, <1>8, Abandons DEF Bailout, Typed
  <2>2. \A i \in 1 .. 0 : FALSE
    OBVIOUS
  <2>3. SoloOf(t)'
    BY <2>1, <2>2 DEF SoloOf, InTop
  <2> QED
    BY <1>a, <2>3
<1>9. CASE UNCHANGED vars
  BY <1>0, <1>9 DEF vars, Solo, SoloOf, InTop, Top, Depth
<1>10. ASSUME NEW t \in Threads, Misuse(t) PROVE Solo'
  BY <1>0, <1>10 DEF Misuse, Solo, SoloOf, InTop, Top, Depth
<1> QED
  BY <1>1, <1>2, <1>3, <1>5, <1>6, <1>7, <1>8, <1>9, <1>10 DEF Next

\* A process with one thread: no iteration's list is replaced under it, however
\* deep error handlers nest their calls.
THEOREM WalkIsIntact == ASSUME OneThread PROVE Spec => []WalkedListIntact
<1>1. Inv /\ Solo /\ [Next]_vars => Inv' /\ Solo'
  BY InvStep, SoloStep
<1>2. Init => Inv /\ Solo
  BY InvInit, SoloInit
<1>3. Solo => WalkedListIntact
  BY DEF Solo, SoloOf, WalkedListIntact, Depth
<1> QED
  BY <1>1, <1>2, <1>3, PTL DEF Spec

\* A process with one thread: a warning has the details of its own call.
THEOREM DetailsAreOwn == ASSUME OneThread PROVE Spec => []OwnDetails
<1>1. Inv /\ Solo /\ [Next]_vars => Inv' /\ Solo'
  BY InvStep, SoloStep
<1>2. Init => Inv /\ Solo
  BY InvInit, SoloInit
<1>3. Solo => OwnDetails
  BY DEF Solo, SoloOf, OwnDetails, Depth
<1> QED
  BY <1>1, <1>2, <1>3, PTL DEF Spec
-----------------------------------------------------------------------------
(***************************************************************************)
(* The contract, of any number of threads.                                 *)
(***************************************************************************)

\* A thread whose outermost call is not concerned.
LEMMA OuterStutters ==
  ASSUME NEW u \in Threads, calls'[u] = <<>> <=> calls[u] = <<>>,
         answer'[u] = answer[u], warned'[u] = warned[u]
  PROVE  [Outer(u)!Next]_(Outer(u)!callVars)
  BY DEF Outer!callVars

LEMMA ContractStep ==
  ASSUME Inv, [Next]_vars, NEW u \in Threads
  PROVE  [Outer(u)!Next]_(Outer(u)!callVars)
<1>0. Typed /\ \A t \in Threads : OfThread(t)
  BY IInvOfThreads DEF Inv
<1>n. \A t \in Threads : Len(calls[t]) \in Nat /\ (Len(calls[t]) = 0 <=> calls[t] = <<>>)
  BY <1>0, Innermost DEF Typed, CallsOK
<1>k. ASSUME NEW t \in Threads, u # t, Kept(Threads \ {t}),
             answer'[u] = answer[u], warned'[u] = warned[u]
      PROVE  [Outer(u)!Next]_(Outer(u)!callVars)
  BY <1>k, OuterStutters DEF Kept
<1>1. CASE Module
  BY <1>1, OuterStutters DEF Module, ModuleStart, ModuleStartFails, ModuleShutdown
<1>2. ASSUME NEW t \in Threads, NEW fn \in PhpFunctions, NEW pc \in {"walk", "failed"},
             \/ Begin(t, fn) /\ pc = "walk"
             \/ BeginFails(t, fn) /\ pc = "failed"
      PROVE  [Outer(u)!Next]_(Outer(u)!callVars)
  <2>1. /\ Kept(Threads \ {t})
        /\ Entered(t, NewCall(fn, pc, IF pc = "walk" THEN "held" ELSE "none"))
        /\ Outermost(t)
    BY <1>0, <1>2, BeginShape
  <2>2. CASE u # t
    BY <1>0, <1>k, <2>1, <2>2 DEF Outermost, Typed
  <2>3. CASE u = t /\ calls[t] # <<>>
    BY <2>1, <2>3, OuterStutters DEF Outermost, Entered
  <2>4. CASE u = t /\ calls[t] = <<>>
    <3>1. calls'[u] # <<>> /\ answer'[u] = "none" /\ warned'[u] = FALSE
      BY <1>0, <2>1, <2>4 DEF Outermost, Entered, Typed
    <3>2. Outer(u)!Begin
      BY <2>4, <3>1 DEF Outer!Begin
    <3> QED
      BY <3>2 DEF Outer!Next
  <2> QED
    BY <2>2, <2>3, <2>4
<1>3. ASSUME NEW t \in Threads, ChildFails(t) PROVE [Outer(u)!Next]_(Outer(u)!callVars)
  BY <1>3, OuterStutters DEF ChildFails
<1>4. ASSUME NEW t \in Threads, WalkFails(t) PROVE [Outer(u)!Next]_(Outer(u)!callVars)
  <2>1. /\ calls[t] # <<>> /\ Kept(Threads \ {t}) /\ calls'[t] # <<>>
        /\ UNCHANGED <<answer, warned>>
    BY <1>0, <1>4, WalkFailsShape DEF Changed
  <2> QED
    BY <1>k, <2>1, OuterStutters
<1>5. ASSUME NEW t \in Threads, Describe(t) PROVE [Outer(u)!Next]_(Outer(u)!callVars)
  <2>1. /\ calls[t] # <<>> /\ calls[t][Len(calls[t])].pc = "failed"
        /\ Kept(Threads \ {t}) /\ calls'[t] # <<>>
        /\ warned' = IF Len(calls[t]) = 1 THEN [warned EXCEPT ![t] = TRUE] ELSE warned
        /\ UNCHANGED answer
    BY <1>0, <1>5, DescribeShape DEF Changed
  <2>2. CASE u # t
    BY <1>0, <1>k, <2>1, <2>2 DEF Typed
  <2>3. CASE u = t /\ Len(calls[t]) # 1
    BY <2>1, <2>3, OuterStutters
  <2>4. CASE u = t /\ Len(calls[t]) = 1
    <3>1. warned'[u] = TRUE /\ answer'[u] = answer[u]
      BY <1>0, <2>1, <2>4 DEF Typed
    <3>2. ~ warned[u]
      BY <1>0, <2>1, <2>4 DEF OfThread
    <3>3. Outer(u)!Warn
      BY <2>1, <2>4, <3>1, <3>2 DEF Outer!Warn
    <3> QED
      BY <3>3 DEF Outer!Next
  <2> QED
    BY <2>2, <2>3, <2>4
<1>6. ASSUME NEW t \in Threads, NEW pc \in {"walk", "report"},
             \/ WalkDone(t) /\ pc = "walk"
             \/ ReturnFalse(t) /\ pc = "report"
      PROVE  [Outer(u)!Next]_(Outer(u)!callVars)
  <2>1. /\ calls[t] # <<>> /\ calls[t][Len(calls[t])].pc = pc
        /\ Kept(Threads \ {t}) /\ (calls'[t] = <<>> <=> Len(calls[t]) = 1)
        /\ answer' = IF Len(calls[t]) = 1
                       THEN [answer EXCEPT ![t] = IF pc = "walk" THEN "array" ELSE "false"]
                       ELSE answer
        /\ UNCHANGED warned
    BY <1>0, <1>6, ReturnShape DEF Returned
  <2>2. CASE u # t
    BY <1>0, <1>k, <2>1, <2>2 DEF Typed
  <2>3. CASE u = t /\ Len(calls[t]) # 1
    BY <2>1, <2>3, OuterStutters
  <2>4. CASE u = t /\ Len(calls[t]) = 1
    <3>1. /\ calls'[u] = <<>> /\ warned'[u] = warned[u]
          /\ answer'[u] = IF pc = "walk" THEN "array" ELSE "false"
      BY <1>0, <2>1, <2>4 DEF Typed
    <3>2. warned[u] <=> pc = "report"
      BY <1>0, <2>1, <2>4 DEF OfThread
    <3>3. CASE pc = "walk"
      BY <2>1, <2>4, <3>1, <3>2, <3>3 DEF Outer!Next, Outer!ReturnArray
    <3>4. CASE pc = "report"
      BY <2>1, <2>4, <3>1, <3>2, <3>4 DEF Outer!Next, Outer!ReturnFalse
    <3> QED
      BY <3>3, <3>4
  <2> QED
    BY <2>2, <2>3, <2>4
<1>7. ASSUME NEW t \in Threads, Bailout(t) PROVE [Outer(u)!Next]_(Outer(u)!callVars)
  <2>1. /\ calls[t] # <<>> /\ UNCHANGED <<answer, warned>>
        /\ calls'[t] = <<>> /\ Kept(Threads \ {t})
    BY <1>0, <1>7, Abandons DEF Bailout, InTop, Typed
  <2>2. CASE u # t
    BY <1>k, <2>1, <2>2
  <2>3. CASE u = t
    BY <2>1, <2>3 DEF Outer!Next, Outer!Abandon
  <2> QED
    BY <2>2, <2>3
<1>8. CASE UNCHANGED vars
  BY <1>8, OuterStutters DEF vars
<1>9. ASSUME NEW t \in Threads, Misuse(t) PROVE [Outer(u)!Next]_(Outer(u)!callVars)
  <2>1. CASE u = t /\ calls[t] = <<>>
    <3>1. calls' = calls /\ answer'[u] = "false" /\ warned'[u] = TRUE
      BY <1>0, <1>9, <2>1 DEF Misuse, Typed
    <3> QED
      BY <2>1, <3>1 DEF Outer!Next, Outer!Misuse
  <2>2. CASE u # t \/ calls[t] # <<>>
    <3>1. calls' = calls /\ answer'[u] = answer[u] /\ warned'[u] = warned[u]
      BY <1>0, <1>9, <2>2 DEF Misuse, Typed
    <3> QED
      BY <3>1, OuterStutters
  <2> QED
    BY <2>1, <2>2
<1> QED
  BY <1>1, <1>2, <1>3, <1>4, <1>5, <1>6, <1>7, <1>8, <1>9 DEF Next

\* On every thread the outermost call keeps the contract of ListCall.
THEOREM KeepsContract == Spec => Contract
<1>1. Init => \A t \in Threads : Outer(t)!Init
  BY DEF Init, Outer!Init
<1>2. Inv /\ [Next]_vars =>
        [\A t \in Threads : [Outer(t)!Next]_(Outer(t)!callVars)]_vars
  BY ContractStep
<1> QED
  BY <1>1, <1>2, InvInit, InvStep, PTL DEF Spec, Contract
=============================================================================
