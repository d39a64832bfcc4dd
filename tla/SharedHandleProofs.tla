-------------------------- MODULE SharedHandleProofs -------------------------
(***************************************************************************)
(* Theorems about SharedHandle, for every tree of names: how calls nest,   *)
(* and that the composition implements each of its parts and ZfsExt.       *)
(***************************************************************************)
EXTENDS SharedHandle, SequenceTheorems, FiniteSetTheorems, TLAPS

CallRecord == [fn : Functions, buffer : Errors \cup {None}]

(***************************************************************************)
(* The stack of calls.                                                     *)
(***************************************************************************)

\* The calls in progress are a stack, and the innermost is one of them.
LEMMA Innermost ==
  ASSUME calls \in Seq(CallRecord)
  PROVE  /\ Len(calls) \in Nat
         /\ \A i \in 1 .. Len(calls) : calls[i] \in CallRecord /\ calls[i].fn \in Functions
         /\ calls = <<>> <=> Len(calls) = 0
         /\ calls # <<>> => Len(calls) \in 1 .. Len(calls) /\ 1 \in 1 .. Len(calls)
<1>1. Len(calls) \in Nat /\ \A i \in 1 .. Len(calls) : calls[i] \in CallRecord
  BY LenProperties, ElementOfSeq
<1>2. calls = <<>> <=> Len(calls) = 0
  BY EmptySeq
<1> QED
  BY <1>1, <1>2 DEF CallRecord

\* A length that is at most two.
LEMMA SmallLength ==
  ASSUME NEW k \in Nat, k <= 2
  PROVE  /\ k = 0 \/ (k = 1 /\ 1 \in 1 .. k) \/ k = 2
         /\ k # 0 => k \in 1 .. 2
  OBVIOUS

\* One more call, where there was at most one.
LEMMA NextLength ==
  ASSUME NEW k \in {0, 1}
  PROVE  k + 1 \in 1 .. 2
  OBVIOUS

\* Of at most two, the one that is not the last is the first.
LEMMA FirstOfTwo ==
  ASSUME NEW k \in 1 .. 2, NEW i \in 1 .. k, i # k
  PROVE  k = 2 /\ i = 1
  OBVIOUS

\* A call is entered, with nothing in its buffer.
LEMMA Enters ==
  ASSUME calls \in Seq(CallRecord), NEW fn \in Functions, Enter(fn)
  PROVE  /\ calls' \in Seq(CallRecord)
         /\ calls' # <<>>
         /\ Len(calls') = Len(calls) + 1
         /\ \A i \in 1 .. Len(calls) : calls'[i] = calls[i]
         /\ calls'[Len(calls) + 1].fn = fn
         /\ calls'[Len(calls) + 1].buffer = None
<1> DEFINE c == [fn |-> fn, buffer |-> None]
<1>1. c \in CallRecord /\ c.fn = fn /\ c.buffer = None
  BY DEF CallRecord
<1>2. calls' = Append(calls, c)
  BY DEF Enter
<1> HIDE DEF c
<1>3. /\ calls' \in Seq(CallRecord)
      /\ Len(calls') = Len(calls) + 1
      /\ \A i \in 1 .. Len(calls) : calls'[i] = calls[i]
      /\ calls'[Len(calls) + 1] = c
  BY <1>1, <1>2, AppendProperties
<1>4. calls' # <<>>
  BY <1>3, Innermost, EmptySeq
<1> QED
  BY <1>1, <1>3, <1>4

\* The innermost call returns.
LEMMA Returns ==
  ASSUME calls \in Seq(CallRecord), calls # <<>>, Return
  PROVE  /\ calls' \in Seq(CallRecord)
         /\ Len(calls') = Len(calls) - 1
         /\ \A i \in 1 .. Len(calls) - 1 : calls'[i] = calls[i]
         /\ calls' = <<>> <=> Len(calls) = 1
<1>1. Len(calls) \in Nat /\ Len(calls) # 0 /\ calls' = SubSeq(calls, 1, Len(calls) - 1)
  BY Innermost DEF Return
<1> DEFINE k == Len(calls) - 1
<1>a. k \in Nat /\ k - 1 + 1 = k /\ \A i \in 1 .. k : 1 + i - 1 = i /\ i \in 1 .. Len(calls)
  BY <1>1
<1>b. 1 \in Int /\ k \in Int /\ \A i \in 1 .. k : calls[i] \in CallRecord
  BY <1>a, Innermost
<1>c. (IF 1 <= k THEN k - 1 + 1 ELSE 0) = k
  BY <1>a
<1> HIDE DEF k
<1>d. /\ SubSeq(calls, 1, k) \in Seq(CallRecord)
      /\ Len(SubSeq(calls, 1, k)) = IF 1 <= k THEN k - 1 + 1 ELSE 0
      /\ \A i \in 1 .. k - 1 + 1 : SubSeq(calls, 1, k)[i] = calls[1 + i - 1]
  BY <1>b, SubSeqProperties
<1>e. calls' = SubSeq(calls, 1, k)
  BY <1>1 DEF k
<1>2. /\ calls' \in Seq(CallRecord) /\ Len(calls') = Len(calls) - 1
      /\ \A i \in 1 .. Len(calls) - 1 : calls'[i] = calls[i]
  <2>1. Len(calls') = k
    BY <1>c, <1>d, <1>e
  <2>2. \A i \in 1 .. k : calls'[i] = calls[i]
    BY <1>a, <1>d, <1>e
  <2> QED
    BY <1>d, <1>e, <2>1, <2>2 DEF k
<1>3. calls' = <<>> <=> Len(calls') = 0
  BY <1>2, EmptySeq
<1> QED
  BY <1>1, <1>2, <1>3

\* The innermost call has its error described to it.
LEMMA Describes ==
  ASSUME calls \in Seq(CallRecord), calls # <<>>, desc \in Errors \cup {None}, Describe
  PROVE  /\ calls' \in Seq(CallRecord)
         /\ Len(calls') = Len(calls)
         /\ calls' # <<>>
         /\ \A i \in 1 .. Len(calls) : calls'[i].fn = calls[i].fn
         /\ \A i \in 1 .. Len(calls) :
              calls'[i].buffer = IF i = Len(calls) THEN desc ELSE calls[i].buffer
<1> DEFINE n == Len(calls)
           c == [calls[n] EXCEPT !.buffer = desc]
<1>1. n \in 1 .. n /\ calls[n] \in CallRecord
  BY Innermost
<1>2. c \in CallRecord /\ c.fn = calls[n].fn /\ c.buffer = desc
  BY <1>1 DEF CallRecord
<1>3. calls' = [calls EXCEPT ![n] = c]
  BY DEF Describe
<1> HIDE DEF c
<1>4. /\ calls' \in Seq(CallRecord) /\ Len(calls') = n
      /\ \A i \in 1 .. n : calls'[i] = IF i = n THEN c ELSE calls[i]
  BY <1>1, <1>2, <1>3, ExceptSeq
<1>5. calls' # <<>>
  BY <1>1, <1>4, EmptySeq
<1> QED
  BY <1>1, <1>2, <1>4, <1>5
-----------------------------------------------------------------------------
(***************************************************************************)
(* How calls nest.                                                         *)
(***************************************************************************)

\* zfs_list() ranges over the list only while it walks.
StackWalks == stack # <<>> => dpc \in {"library", "callback"}

Nest ==
  /\ calls \in Seq(CallRecord)
  /\ desc \in Errors \cup {None}
  /\ outer \in Functions
  /\ calls # <<>> => outer = calls[1].fn
  /\ StackWalks
  /\ OnlyInnermostRuns

\* Who may call: nobody is walking then.
LEMMA CallerWaits ==
  ASSUME Nest, NEW fn \in Functions, MayCall(fn)
  PROVE  /\ Pc(fn) = "idle" /\ Len(calls) \in {0, 1}
         /\ \A g \in Functions : Pc(g) \in {"idle", "refused"}
         /\ calls # <<>> => Pc(calls[1].fn) = "refused" /\ calls[1].fn # fn
         /\ stack = <<>>
<1>1. /\ Len(calls) \in Nat /\ Len(calls) <= 2
      /\ calls = <<>> <=> Len(calls) = 0
      /\ \A i \in 1 .. Len(calls) : calls[i].fn \in Functions
  BY Innermost DEF Nest, OnlyInnermostRuns
<1>2. Pc(fn) = "idle"
  BY DEF Nest, OnlyInnermostRuns, MayCall
<1>3. Len(calls) # 2
  <2> SUFFICES ASSUME Len(calls) = 2 PROVE FALSE
    OBVIOUS
  <2>1. /\ calls[1].fn \in Functions /\ calls[2].fn \in Functions
        /\ calls[1].fn # fn /\ calls[2].fn # fn /\ calls[1].fn # calls[2].fn
    BY <1>1 DEF Nest, OnlyInnermostRuns, MayCall
  <2> QED
    BY <2>1 DEF Functions
<1>4. calls # <<>> => Pc(calls[1].fn) = "refused" /\ calls[1].fn # fn
  <2> SUFFICES ASSUME calls # <<>> PROVE Pc(calls[1].fn) = "refused" /\ calls[1].fn # fn
    OBVIOUS
  <2>1. Len(calls) = 1 /\ 1 \in 1 .. Len(calls)
    BY <1>1, <1>3, SmallLength
  <2> QED
    BY <2>1 DEF MayCall, Inner
<1>5. ASSUME NEW g \in Functions PROVE Pc(g) \in {"idle", "refused"}
  <2>1. CASE calls = <<>>
    BY <1>1, <2>1 DEF Nest, OnlyInnermostRuns
  <2>2. CASE calls # <<>>
    <3>1. calls[1].fn \in Functions
      BY <1>1, <2>2
    <3>2. g = fn \/ g = calls[1].fn
      BY <1>4, <2>2, <3>1 DEF Functions
    <3> QED
      BY <1>2, <1>4, <2>2, <3>2
  <2> QED
    BY <2>1, <2>2
<1>6. stack = <<>>
  BY <1>5 DEF Nest, StackWalks, Functions, Pc
<1>7. Len(calls) \in {0, 1}
  BY <1>1, <1>3, SmallLength
<1> QED
  BY <1>2, <1>4, <1>5, <1>6, <1>7

\* A call is entered.
LEMMA NestEnters ==
  ASSUME Nest, NEW fn \in Functions, MayCall(fn), Enter(fn),
         Pc(fn)' # "idle",
         \A g \in Functions \ {fn} : Pc(g)' = Pc(g),
         desc' \in Errors \cup {None}, StackWalks'
  PROVE  Nest'
<1>1. /\ calls' \in Seq(CallRecord) /\ calls' # <<>> /\ Len(calls') = Len(calls) + 1
      /\ \A i \in 1 .. Len(calls) : calls'[i] = calls[i]
      /\ calls'[Len(calls) + 1].fn = fn
  BY Enters DEF Nest
<1>2. /\ Len(calls) \in {0, 1}
      /\ calls = <<>> <=> Len(calls) = 0
      /\ \A i \in 1 .. Len(calls) : calls[i].fn \in Functions
      /\ calls # <<>> => Pc(calls[1].fn) = "refused" /\ calls[1].fn # fn
  BY CallerWaits, Innermost DEF Nest
<1>3. outer' \in Functions /\ outer' = calls'[1].fn
  BY <1>1, <1>2 DEF Enter, Nest
<1>4. Len(calls') = 2 => calls'[1].fn # calls'[2].fn /\ Pc(calls[1].fn)' = "refused"
  <2> SUFFICES ASSUME Len(calls') = 2
               PROVE  calls'[1].fn # calls'[2].fn /\ Pc(calls[1].fn)' = "refused"
    OBVIOUS
  <2>1. Len(calls) = 1 /\ calls # <<>> /\ calls'[1] = calls[1] /\ calls'[2].fn = fn
    BY <1>1, <1>2
  <2>2. PICK g \in Functions \ {fn} : g = calls[1].fn
    BY <1>2, <2>1
  <2>3. Pc(g)' = Pc(g) /\ Pc(g) = "refused"
    BY <1>2, <2>1, <2>2
  <2> QED
    BY <2>1, <2>2, <2>3 DEF Pc
<1>5. ASSUME NEW g \in Functions
      PROVE  Pc(g)' = "idle" <=> \A i \in 1 .. Len(calls') : calls'[i].fn # g
  <2>1. CASE g = fn
    <3>1. Len(calls) + 1 \in 1 .. Len(calls')
      BY <1>1, <1>2
    <3> QED
      BY <1>1, <2>1, <3>1
  <2>2. CASE g # fn
    <3>1. Pc(g) = "idle" <=> \A i \in 1 .. Len(calls) : calls[i].fn # g
      BY DEF Nest, OnlyInnermostRuns
    <3>2. \A i \in 1 .. Len(calls') : i \in 1 .. Len(calls) \/ i = Len(calls) + 1
      BY <1>1, <1>2
    <3>3. \A i \in 1 .. Len(calls) : i \in 1 .. Len(calls')
      BY <1>1, <1>2
    <3>4. Pc(g)' = Pc(g)
      BY <2>2
    <3> QED
      BY <1>1, <2>2, <3>1, <3>2, <3>3, <3>4
  <2> QED
    BY <2>1, <2>2
<1>6. OnlyInnermostRuns'
  BY <1>1, <1>2, <1>4, <1>5 DEF OnlyInnermostRuns
<1> QED
  BY <1>1, <1>3, <1>6 DEF Nest

\* The innermost call takes a step and stays.
LEMMA NestStays ==
  ASSUME Nest, NEW fn \in Functions, Runs(fn), Stays \/ Describe,
         Pc(fn)' # "idle",
         \A g \in Functions \ {fn} : Pc(g)' = Pc(g),
         desc' \in Errors \cup {None}, StackWalks'
  PROVE  Nest'
<1>0. /\ calls # <<>> /\ calls[Len(calls)].fn = fn
      /\ Len(calls) \in 1 .. Len(calls) /\ Len(calls) \in Nat
      /\ 1 \in 1 .. Len(calls) /\ outer' = outer
      /\ \A i \in 1 .. Len(calls) : calls[i].fn \in Functions
  BY Innermost DEF Runs, Inner, Nest, Stays, Describe
<1>1. /\ calls' \in Seq(CallRecord) /\ calls' # <<>> /\ Len(calls') = Len(calls)
      /\ \A i \in 1 .. Len(calls) : calls'[i].fn = calls[i].fn
  BY <1>0, Describes DEF Nest, Stays
<1>2. Len(calls') = 2 => calls'[1].fn # calls'[2].fn /\ Pc(calls[1].fn)' = "refused"
  <2> SUFFICES ASSUME Len(calls) = 2
               PROVE  calls'[1].fn # calls'[2].fn /\ Pc(calls[1].fn)' = "refused"
    BY <1>1
  <2>1. /\ calls[1].fn # calls[2].fn /\ calls[2].fn = fn /\ Pc(calls[1].fn) = "refused"
        /\ calls[1].fn \in Functions \ {fn}
    BY <1>0 DEF Nest, OnlyInnermostRuns
  <2>2. calls'[1].fn = calls[1].fn /\ calls'[2].fn = calls[2].fn
    BY <1>1
  <2>3. PICK g \in Functions \ {fn} : g = calls[1].fn
    BY <2>1
  <2>4. Pc(g)' = Pc(g) /\ Pc(g) = "refused"
    BY <2>1, <2>3
  <2> QED
    BY <2>1, <2>2, <2>3, <2>4 DEF Pc
<1>3. ASSUME NEW g \in Functions
      PROVE  Pc(g)' = "idle" <=> \A i \in 1 .. Len(calls') : calls'[i].fn # g
  <2>1. CASE g = fn
    BY <1>0, <1>1, <2>1
  <2>2. CASE g # fn
    BY <1>1, <2>2 DEF Nest, OnlyInnermostRuns
  <2> QED
    BY <2>1, <2>2
<1>4. OnlyInnermostRuns'
  <2>1. Len(calls') <= 2
    BY <1>1 DEF OnlyInnermostRuns, Nest
  <2> QED
    BY <1>2, <1>3, <2>1 DEF OnlyInnermostRuns
<1> QED
  BY <1>0, <1>1, <1>4 DEF Nest

\* The innermost call returns.
LEMMA NestReturns ==
  ASSUME Nest, NEW fn \in Functions, Runs(fn), Return,
         Pc(fn)' = "idle",
         \A g \in Functions \ {fn} : Pc(g)' = Pc(g),
         desc' \in Errors \cup {None}, StackWalks'
  PROVE  Nest'
<1>0. /\ calls # <<>> /\ calls[Len(calls)].fn = fn
      /\ Len(calls) \in {1, 2} /\ outer' = outer
      /\ \A i \in 1 .. Len(calls) : calls[i].fn \in Functions
  <2>1. /\ Len(calls) \in Nat /\ Len(calls) # 0
        /\ \A i \in 1 .. Len(calls) : calls[i].fn \in Functions
    BY Innermost DEF Nest, Runs
  <2>2. Len(calls) <= 2
    BY DEF Nest, OnlyInnermostRuns
  <2>3. calls # <<>> /\ calls[Len(calls)].fn = fn /\ outer' = outer
    BY DEF Runs, Inner, Return
  <2>4. Len(calls) \in {1, 2}
    BY <2>1, <2>2, SmallLength
  <2> QED
    BY <2>1, <2>3, <2>4
<1>1. /\ calls' \in Seq(CallRecord) /\ Len(calls') = Len(calls) - 1
      /\ \A i \in 1 .. Len(calls) - 1 : calls'[i] = calls[i]
      /\ calls' = <<>> <=> Len(calls) = 1
  BY <1>0, Returns DEF Nest
<1>2. calls' # <<>> => outer' = calls'[1].fn
  BY <1>0, <1>1 DEF Nest
<1>3. ASSUME NEW g \in Functions
      PROVE  Pc(g)' = "idle" <=> \A i \in 1 .. Len(calls') : calls'[i].fn # g
  <2>1. CASE g = fn
    <3>1. \A i \in 1 .. Len(calls) - 1 : calls[i].fn # fn
      BY <1>0 DEF Nest, OnlyInnermostRuns
    <3> QED
      BY <1>1, <2>1, <3>1
  <2>2. CASE g # fn
    <3>1. Pc(g) = "idle" <=> \A i \in 1 .. Len(calls) : calls[i].fn # g
      BY DEF Nest, OnlyInnermostRuns
    <3>2. \A i \in 1 .. Len(calls) : i \in 1 .. Len(calls) - 1 \/ i = Len(calls)
      BY <1>0
    <3>3. \A i \in 1 .. Len(calls) - 1 : i \in 1 .. Len(calls)
      BY <1>0
    <3>4. Pc(g)' = Pc(g)
      BY <2>2
    <3> QED
      BY <1>0, <1>1, <2>2, <3>1, <3>2, <3>3, <3>4
  <2> QED
    BY <2>1, <2>2
<1>4. OnlyInnermostRuns'
  BY <1>0, <1>1, <1>3 DEF OnlyInnermostRuns
<1> QED
  BY <1>0, <1>1, <1>2, <1>4 DEF Nest

\* Nobody calls yet.
LEMMA NestInit == Init => Nest
<1> SUFFICES ASSUME Init PROVE Nest
  OBVIOUS
<1>1. calls = <<>> /\ <<>> \in Seq(CallRecord) /\ Len(<<>>) = 0
  BY EmptySeq DEF Init
<1>2. dpc = "idle" /\ ppc = "idle" /\ stack = <<>> /\ desc = None /\ outer = "zfs_list"
  BY DEF Init, D!Init, P!Init
<1>3. OnlyInnermostRuns
  <2>1. \A i \in 1 .. 0 : FALSE
    OBVIOUS
  <2> QED
    BY <1>1, <1>2, <2>1 DEF OnlyInnermostRuns, Pc
<1> QED
  BY <1>1, <1>2, <1>3 DEF Nest, StackWalks, Functions

\* An error of a call in progress, or of one about to be.
LEMMA ErrorType ==
  ASSUME Nest, calls # <<>>, NEW in \in {"walk", "child"}
  PROVE  Error(in) \in Errors
<1>1. Len(calls) \in Nat /\ Len(calls) # 0 /\ Len(calls) <= 2
  BY Innermost DEF Nest, OnlyInnermostRuns
<1>2. Len(calls) \in 1 .. 2
  BY <1>1, SmallLength
<1> QED
  BY <1>2 DEF Error, Errors

\* Every step keeps the order of the calls.
LEMMA NestStep == Nest /\ [Next]_vars => Nest'
<1> SUFFICES ASSUME Nest, [Next]_vars PROVE Nest'
  OBVIOUS
<1>0. StackWalks /\ desc \in Errors \cup {None}
  BY DEF Nest
<1>f. Functions = {"zfs_list", "zpool_list"}
  BY DEF Functions
<1>1. CASE UNCHANGED <<calls, outer, desc, stack, dpc, ppc>>
  BY <1>1 DEF Nest, StackWalks, OnlyInnermostRuns, Pc
<1>2. ASSUME NEW n \in Names, Create(n) \/ Destroy(n) PROVE Nest'
  <2>1. UNCHANGED <<calls, outer, desc, stack, dpc>>
    BY <1>2 DEF Create, Destroy, handleVars, D!Create, D!Destroy, D!callVars
  <2>2. UNCHANGED ppc
    BY <1>2 DEF Create, Destroy, poolVars, P!Import, P!Export, P!callVars
  <2> QED
    BY <1>1, <2>1, <2>2
<1>3. CASE ZfsListBegins
  <2>1. /\ MayCall("zfs_list") /\ Enter("zfs_list") /\ dpc' = "library"
        /\ UNCHANGED <<desc, ppc>>
    BY <1>3 DEF ZfsListBegins, poolVars, D!Begin
  <2>2. StackWalks' /\ Pc("zfs_list")' # "idle" /\ Pc("zpool_list")' = Pc("zpool_list")
    BY <2>1 DEF StackWalks, Pc
  <2> QED
    BY <1>0, <1>f, <2>1, <2>2, NestEnters
<1>4. CASE ZpoolListBegins
  <2>1. /\ MayCall("zpool_list") /\ Enter("zpool_list") /\ ppc' \in {"library", "failed"}
        /\ UNCHANGED <<dpc, stack>>
        /\ desc' = desc \/ desc' = [Error("walk") EXCEPT !.depth = Len(calls) + 1]
    BY <1>4 DEF ZpoolListBegins, datasetVars, P!Begin, P!BeginFails
  <2>2. [Error("walk") EXCEPT !.depth = Len(calls) + 1] \in Errors
    <3>1. Len(calls) + 1 \in 1 .. 2
      <4>1. Len(calls) \in {0, 1}
        BY <1>f, <2>1, CallerWaits
      <4> QED
        BY <4>1, NextLength
    <3> QED
      BY <3>1 DEF Error, Errors
  <2>3. StackWalks' /\ Pc("zpool_list")' # "idle" /\ Pc("zfs_list")' = Pc("zfs_list")
    BY <1>0, <2>1 DEF StackWalks, Pc
  <2> QED
    BY <1>0, <1>f, <2>1, <2>2, <2>3, NestEnters
<1>5. CASE ZfsListRuns
  <2>1. Runs("zfs_list") /\ calls # <<>> /\ Pc("zpool_list")' = Pc("zpool_list")
    BY <1>5 DEF ZfsListRuns, Runs, Pc, poolVars
  <2>2. Error("child") \in Errors /\ Error("walk") \in Errors
    BY <2>1, ErrorType
  <2>3. \/ Stays \/ Describe
        \/ Return
    BY <1>5 DEF ZfsListRuns
  <2>4. desc' \in Errors \cup {None}
    BY <1>0, <1>5, <2>2 DEF ZfsListRuns
  <2>5. StackWalks'
    BY <1>0, <1>5 DEF ZfsListRuns, StackWalks, D!OpenNext, D!SkipNext, D!AddRow, D!ChildrenDone,
       D!ChildrenFail, D!RootDone, D!RootFail, D!Warn, D!ReturnFalse, D!InLibrary, D!AtRoot, D!worldVars
  <2>6. CASE \/ (\E n \in Names : D!OpenNext(n) \/ D!SkipNext(n)) /\ Stays
             \/ (D!AddRow \/ D!ChildrenDone) /\ Stays
             \/ D!ChildrenFail /\ Stays
             \/ D!RootFail /\ Stays
             \/ D!Warn /\ Describe
    <3>1. Pc("zfs_list")' # "idle"
      BY <2>6 DEF Pc, D!OpenNext, D!SkipNext, D!AddRow, D!ChildrenDone, D!ChildrenFail,
         D!RootFail, D!Warn, D!InLibrary
    <3>2. Stays \/ Describe
      BY <2>6
    <3> QED
      BY <1>f, <2>1, <2>4, <2>5, <3>1, <3>2, NestStays
  <2>7. CASE (D!RootDone \/ D!ReturnFalse) /\ Return
    <3>1. Pc("zfs_list")' = "idle"
      BY <2>7 DEF Pc, D!RootDone, D!ReturnFalse
    <3> QED
      BY <1>f, <2>1, <2>4, <2>5, <2>7, <3>1, NestReturns
  <2> QED
    BY <1>5, <2>6, <2>7 DEF ZfsListRuns
<1>6. CASE ZpoolListRuns
  <2>1. Runs("zpool_list") /\ calls # <<>> /\ Pc("zfs_list")' = Pc("zfs_list")
    BY <1>6 DEF ZpoolListRuns, Runs, Pc, datasetVars
  <2>2. Error("walk") \in Errors
    BY <2>1, ErrorType
  <2>3. desc' \in Errors \cup {None}
    BY <1>0, <1>6, <2>2 DEF ZpoolListRuns
  <2>4. StackWalks'
    BY <1>0, <1>6 DEF ZpoolListRuns, StackWalks, datasetVars
  <2>5. CASE \/ (\E p \in Pools : P!OpenNext(p) \/ P!SkipNext(p) \/ P!AddRow(p)) /\ Stays
             \/ P!WalkFails /\ Stays
             \/ P!Warn /\ Describe
    <3>1. Pc("zpool_list")' # "idle"
      BY <2>5 DEF Pc, P!OpenNext, P!SkipNext, P!AddRow, P!WalkFails, P!Warn
    <3>2. Stays \/ Describe
      BY <2>5
    <3> QED
      BY <1>f, <2>1, <2>3, <2>4, <3>1, <3>2, NestStays
  <2>6. CASE (P!Done \/ P!ReturnFalse) /\ Return
    <3>1. Pc("zpool_list")' = "idle"
      BY <2>6 DEF Pc, P!Done, P!ReturnFalse
    <3> QED
      BY <1>f, <2>1, <2>3, <2>4, <2>6, <3>1, NestReturns
  <2> QED
    BY <1>6, <2>5, <2>6 DEF ZpoolListRuns
<1>7. CASE Abandon
  <2>1. calls' = <<>> /\ UNCHANGED <<desc, outer>>
    BY <1>7 DEF Abandon, handleVars
  <2>2. dpc' = "idle" /\ ppc' = "idle"
    BY <1>7 DEF Abandon, datasetVars, poolVars, D!Bailout, D!AbandonInHandler, P!Bailout,
       P!AbandonInHandler
  <2>3. StackWalks'
    <3>1. dpc \in {"idle", "refused"} => stack = <<>>
      BY <1>0 DEF StackWalks
    <3> QED
      BY <1>7, <3>1 DEF Abandon, StackWalks, datasetVars, D!Bailout, D!AbandonInHandler
  <2>4. <<>> \in Seq(CallRecord) /\ Len(<<>>) = 0 /\ \A i \in 1 .. 0 : FALSE
    BY EmptySeq
  <2>5. OnlyInnermostRuns'
    BY <2>1, <2>2, <2>4 DEF OnlyInnermostRuns, Pc
  <2> QED
    BY <2>1, <2>3, <2>4, <2>5 DEF Nest
<1>8. CASE UNCHANGED vars
  BY <1>1, <1>8 DEF vars, handleVars, datasetVars, poolVars
<1> QED
  BY <1>2, <1>3, <1>4, <1>5, <1>6, <1>7, <1>8 DEF Next

\* So it is kept throughout.
LEMMA NestInv == Spec => []Nest
  BY NestInit, NestStep, PTL DEF Spec

\* The calls that are not the innermost stand in their warnings, and no walk is
\* in progress that has no call: an abort leaves neither half done.
THEOREM InnermostAlone == Spec => []OnlyInnermostRuns
<1>1. Nest => OnlyInnermostRuns
  BY DEF Nest
<1> QED
  BY <1>1, NestInv, PTL
-----------------------------------------------------------------------------
(***************************************************************************)
(* Each walk takes only steps of its own specification.                    *)
(***************************************************************************)

\* Every step is one of DatasetWalk, or changes nothing it knows of.
LEMMA DatasetWalkStep == Nest /\ [Next]_vars => [D!Next]_(D!vars)
<1> SUFFICES ASSUME Nest, [Next]_vars PROVE [D!Next]_(D!vars)
  OBVIOUS
<1>1. ASSUME NEW n \in Names, Create(n) \/ Destroy(n) PROVE D!Next
  BY <1>1 DEF Create, Destroy, D!Next, D!World
<1>2. CASE ZfsListBegins
  BY <1>2 DEF ZfsListBegins, D!Next
<1>3. CASE ZfsListRuns
  BY <1>3 DEF ZfsListRuns, D!Next, D!CallStep
\* The list may be loaded anew, but zfs_list() does not walk it then.
<1>4. CASE ZpoolListBegins
  <2>1. stack = <<>>
    BY <1>4, CallerWaits DEF ZpoolListBegins, Functions
  <2> QED
    BY <1>4, <2>1 DEF ZpoolListBegins, datasetVars, D!vars, D!worldVars, D!callVars
<1>5. CASE ZpoolListRuns
  <2>1. UNCHANGED <<live, datasetVars, list>>
    BY <1>5 DEF ZpoolListRuns, P!OpenNext, P!SkipNext, P!AddRow, P!Done, P!WalkFails, P!Warn,
       P!ReturnFalse
  <2> QED
    BY <2>1 DEF datasetVars, D!vars, D!worldVars, D!callVars
<1>6. CASE Abandon
  <2>1. CASE dpc = "idle"
    BY <1>6, <2>1 DEF Abandon, handleVars, datasetVars, D!vars, D!worldVars, D!callVars
  <2>2. CASE dpc # "idle"
    BY <1>6, <2>2 DEF Abandon, D!Next, D!CallStep
  <2> QED
    BY <2>1, <2>2
<1>7. CASE UNCHANGED vars
  BY <1>7 DEF vars, handleVars, datasetVars, D!vars, D!worldVars, D!callVars
<1> QED
  BY <1>1, <1>2, <1>3, <1>4, <1>5, <1>6, <1>7 DEF Next

\* Whatever zpool_list() and its handlers do with the handle, zfs_list() walks
\* as DatasetWalk has it: so DatasetWalk's theorems hold of it here.
THEOREM DatasetWalkKept == Spec => KeepsDatasetWalk
<1>1. Init => D!Init
  BY DEF Init
<1> QED
  BY <1>1, NestInv, DatasetWalkStep, PTL DEF Spec, KeepsDatasetWalk, D!Spec

\* Every step is one of PoolWalk, or changes nothing it knows of.
LEMMA PoolWalkStep == Nest /\ [Next]_vars => [P!Next]_(P!vars)
<1> SUFFICES ASSUME Nest, [Next]_vars PROVE [P!Next]_(P!vars)
  OBVIOUS
<1>1. ASSUME NEW n \in Names, Create(n) \/ Destroy(n) PROVE [P!Next]_(P!vars)
  <2>1. CASE n \in Pools
    BY <1>1, <2>1 DEF Create, Destroy, P!Next, P!World
  <2>2. CASE n \notin Pools
    <3>1. UNCHANGED <<handleVars, poolVars>>
      BY <1>1, <2>2 DEF Create, Destroy
    <3>2. (live \cap Pools)' = live \cap Pools
      BY <1>1, <2>2 DEF Create, Destroy, D!Create, D!Destroy, Pools
    <3> QED
      BY <3>1, <3>2 DEF handleVars, poolVars, P!vars, P!callVars
  <2> QED
    BY <2>1, <2>2
\* The list is loaded anew, but zpool_list() does not walk it then.
<1>2. CASE ZfsListBegins
  <2>1. Pc("zpool_list") \in {"idle", "refused"}
    BY <1>2, CallerWaits DEF ZfsListBegins, Functions
  <2>2. P!LoadForZfsList
    BY <1>2, <2>1 DEF ZfsListBegins, D!Begin, poolVars, Pc, P!LoadForZfsList
  <2> QED
    BY <2>2 DEF P!Next
<1>3. CASE ZfsListRuns
  <2>1. UNCHANGED <<live, list, walks, poolVars>>
    BY <1>3 DEF ZfsListRuns, D!OpenNext, D!SkipNext, D!AddRow, D!ChildrenDone,
       D!ChildrenFail, D!RootDone, D!RootFail, D!Warn, D!ReturnFalse, D!worldVars
  <2> QED
    BY <2>1 DEF poolVars, P!vars, P!callVars
<1>4. CASE ZpoolListBegins
  BY <1>4 DEF ZpoolListBegins, P!Next
<1>5. CASE ZpoolListRuns
  BY <1>5 DEF ZpoolListRuns, P!Next, P!CallStep
<1>6. CASE Abandon
  <2>1. CASE ppc = "idle"
    BY <1>6, <2>1 DEF Abandon, handleVars, poolVars, P!vars, P!callVars
  <2>2. CASE ppc # "idle"
    BY <1>6, <2>2 DEF Abandon, P!Next, P!CallStep
  <2> QED
    BY <2>1, <2>2
<1>7. CASE UNCHANGED vars
  BY <1>7 DEF vars, handleVars, poolVars, P!vars, P!callVars
<1> QED
  BY <1>1, <1>2, <1>3, <1>4, <1>5, <1>6, <1>7 DEF Next

\* Whatever zfs_list() does with the handle, zpool_list() walks as PoolWalk has
\* it: above all, its list is never loaded anew while it is being walked.
THEOREM PoolWalkKept == Spec => KeepsPoolWalk
<1>1. Init => P!Init
  BY DEF Init
<1> QED
  BY <1>1, NestInv, PoolWalkStep, PTL DEF Spec, KeepsPoolWalk, P!Spec
-----------------------------------------------------------------------------
(***************************************************************************)
(* The calls as ZfsExt sees them.                                          *)
(***************************************************************************)

View == [i \in 1 .. Len(calls) |-> Abstract(calls[i])]

ViewOf(fn, pc, buffer) ==
  [fn     |-> fn,
   pc     |-> IF pc = "failed" THEN "failed" ELSE IF pc = "refused" THEN "report" ELSE "walk",
   list   |-> IF pc \in {"failed", "refused"} THEN "none" ELSE "held",
   buffer |-> buffer]

ViewRecord == [fn : Functions, pc : {"walk", "failed", "report"}, list : {"held", "none"},
               buffer : Errors \cup {None}]

\* There is a record for each call, with its function, place and buffer.
Viewed ==
  /\ View \in Seq(ViewRecord)
  /\ Len(View) = Len(calls)
  /\ View = <<>> <=> calls = <<>>
  /\ \A i \in 1 .. Len(calls) :
       View[i] = ViewOf(calls[i].fn, Pc(calls[i].fn), calls[i].buffer)

\* The view of any stack of calls has this form.
LEMMA ViewFacts == calls \in Seq(CallRecord) => Viewed
<1> SUFFICES ASSUME calls \in Seq(CallRecord) PROVE Viewed
  OBVIOUS
<1>1. \A i \in 1 .. Len(calls) :
        /\ Abstract(calls[i]) = ViewOf(calls[i].fn, Pc(calls[i].fn), calls[i].buffer)
        /\ Abstract(calls[i]) \in ViewRecord
  BY Innermost DEF Abstract, ViewOf, ViewRecord, CallRecord
<1>2. Len(calls) \in Nat
  BY Innermost
<1>3. View \in Seq(ViewRecord) /\ Len(View) = Len(calls)
  BY <1>1, <1>2 DEF View
<1>4. View = <<>> <=> Len(View) = 0
  BY <1>3, EmptySeq
<1> QED
  BY <1>1, <1>2, <1>3, <1>4, Innermost DEF View, Viewed

\* So it has in every state, and
LEMMA ViewAlways == Nest => Viewed
  BY ViewFacts DEF Nest

\* in every next one.
LEMMA ViewNext == Nest' => Viewed'
  BY ViewAlways, PTL

\* A call is entered.
LEMMA ViewEnters ==
  ASSUME Nest, Nest', NEW fn \in Functions, MayCall(fn), Enter(fn),
         \A g \in Functions \ {fn} : Pc(g)' = Pc(g)
  PROVE  /\ View' = Append(View, ViewOf(fn, Pc(fn)', None))
         /\ View = <<>> <=> calls = <<>>
         /\ calls # <<>> => View[Len(View)].pc = "report"
         /\ Len(View) = Len(calls) /\ Len(calls) \in {0, 1}
<1>1. /\ calls' \in Seq(CallRecord) /\ Len(calls') = Len(calls) + 1
      /\ \A i \in 1 .. Len(calls) : calls'[i] = calls[i]
      /\ calls'[Len(calls) + 1].fn = fn /\ calls'[Len(calls) + 1].buffer = None
  BY Enters DEF Nest
<1>2. Viewed /\ Viewed'
  BY ViewAlways, ViewNext
<1>4. Len(calls) \in Nat /\ \A i \in 1 .. Len(calls) : calls[i].fn \in Functions \ {fn}
  BY Innermost DEF Nest, MayCall
<1>5. \A i \in 1 .. Len(calls) : View'[i] = View[i]
  <2> TAKE i \in 1 .. Len(calls)
  <2>1. PICK g \in Functions \ {fn} : g = calls[i].fn
    BY <1>4
  <2>2. Pc(g)' = Pc(g) /\ calls'[i] = calls[i] /\ i \in 1 .. Len(calls')
    BY <1>1, <1>4, <2>1
  <2>3. View'[i] = ViewOf(calls[i].fn, Pc(calls[i].fn), calls[i].buffer)'
    BY <1>2, <2>2 DEF Viewed
  <2>4. View[i] = ViewOf(g, Pc(g), calls[i].buffer)
    BY <1>2, <2>1 DEF Viewed
  <2> QED
    BY <2>1, <2>2, <2>3, <2>4 DEF ViewOf, Pc
<1>6. View'[Len(calls) + 1] = ViewOf(fn, Pc(fn)', None)
  <2>1. PICK k \in 1 .. Len(calls') : k = Len(calls) + 1
    BY <1>1, <1>4
  <2>2. View'[k] = ViewOf(calls[k].fn, Pc(calls[k].fn), calls[k].buffer)'
    BY <1>2, <2>1 DEF Viewed
  <2>3. calls'[k].fn = fn /\ calls'[k].buffer = None
    BY <1>1, <2>1
  <2> QED
    BY <2>1, <2>2, <2>3 DEF ViewOf, Pc
<1> DEFINE v == ViewOf(fn, Pc(fn)', None)
<1>7. v \in ViewRecord
  BY DEF ViewOf, ViewRecord
<1>8. View' = Append(View, v)
  <2> HIDE DEF v
  <2>1. /\ View \in Seq(ViewRecord) /\ View' \in Seq(ViewRecord)
        /\ Len(View) = Len(calls) /\ Len(View') = Len(calls) + 1
    BY <1>1, <1>2 DEF Viewed
  <2>2. /\ Append(View, v) \in Seq(ViewRecord) /\ Len(Append(View, v)) = Len(View) + 1
        /\ \A i \in 1 .. Len(View) : Append(View, v)[i] = View[i]
        /\ Append(View, v)[Len(View) + 1] = v
    BY <1>7, <2>1, AppendProperties
  <2>3. ASSUME NEW i \in 1 .. Len(View') PROVE View'[i] = Append(View, v)[i]
    <3>1. i \in 1 .. Len(calls) \/ i = Len(calls) + 1
      BY <1>4, <2>1
    <3>2. View'[Len(calls) + 1] = v
      BY <1>6 DEF v
    <3> QED
      BY <1>5, <2>1, <2>2, <3>1, <3>2
  <2>4. Len(View') = Len(Append(View, v))
    BY <2>1, <2>2
  <2> QED
    BY <2>1, <2>2, <2>3, <2>4, SeqEqual
<1>9. calls # <<>> => View[Len(View)].pc = "report"
  <2> SUFFICES ASSUME calls # <<>> PROVE View[Len(View)].pc = "report"
    OBVIOUS
  <2>1. Pc(calls[1].fn) = "refused" /\ Len(calls) = 1 /\ 1 \in 1 .. Len(calls)
    BY CallerWaits, Innermost DEF Nest
  <2> QED
    BY <1>2, <2>1 DEF Viewed, ViewOf
<1> QED
  BY <1>2, <1>8, <1>9, CallerWaits DEF Viewed

\* The innermost call is seen as what it is.
LEMMA ViewInnermost ==
  ASSUME Nest, NEW fn \in Functions, Runs(fn)
  PROVE  /\ View # <<>> /\ calls # <<>> /\ Len(View) = Len(calls)
         /\ Len(calls) \in 1 .. 2 /\ Len(calls) \in 1 .. Len(calls)
         /\ \A i \in 1 .. Len(calls) : calls[i].fn \in Functions
         /\ calls[Len(calls)].fn = fn
         /\ \A i \in 1 .. Len(calls) : i # Len(calls) => calls[i].fn \in Functions \ {fn}
         /\ View[Len(View)] = ViewOf(fn, Pc(fn), calls[Len(calls)].buffer)
<1>1. /\ Viewed /\ calls # <<>> /\ calls[Len(calls)].fn = fn
      /\ Len(calls) \in 1 .. Len(calls) /\ Len(calls) \in Nat
      /\ \A i \in 1 .. Len(calls) : calls[i].fn \in Functions
  BY ViewAlways, Innermost DEF Nest, Runs, Inner
<1>2. Len(calls) \in 1 .. 2
  <2>1. Len(calls) <= 2 /\ Len(calls) # 0
    BY <1>1, Innermost DEF Nest, OnlyInnermostRuns
  <2> QED
    BY <1>1, <2>1, SmallLength
<1>3. ASSUME NEW i \in 1 .. Len(calls), i # Len(calls) PROVE calls[i].fn # fn
  <2>2. Len(calls) = 2 /\ i = 1
    BY <1>2, <1>3, FirstOfTwo
  <2> QED
    BY <1>1, <2>2 DEF Nest, OnlyInnermostRuns
<1> QED
  BY <1>1, <1>2, <1>3 DEF Viewed

\* The innermost call takes a step and stays.
LEMMA ViewStays ==
  ASSUME Nest, Nest', NEW fn \in Functions, Runs(fn), Stays \/ Describe,
         \A g \in Functions \ {fn} : Pc(g)' = Pc(g)
  PROVE  View' = [View EXCEPT ![Len(View)] =
                    ViewOf(fn, Pc(fn)', IF Stays THEN calls[Len(calls)].buffer ELSE desc)]
<1> DEFINE n == Len(calls)
           b == IF Stays THEN calls[n].buffer ELSE desc
           v == ViewOf(fn, Pc(fn)', b)
<1>1. /\ View # <<>> /\ Len(View) = n /\ n \in 1 .. n /\ calls # <<>>
      /\ calls[n].fn = fn
      /\ \A i \in 1 .. n : i # n => calls[i].fn \in Functions \ {fn}
  BY ViewInnermost
<1>2. Viewed /\ Viewed'
  BY ViewAlways, ViewNext
<1>3. /\ Len(calls') = n
      /\ \A i \in 1 .. n : calls'[i].fn = calls[i].fn
      /\ \A i \in 1 .. n : calls'[i].buffer = IF i = n THEN b ELSE calls[i].buffer
  <2>1. CASE Stays
    BY <2>1 DEF Stays
  <2>2. CASE Describe /\ ~ Stays
    BY <1>1, <2>2, Describes DEF Nest
  <2> QED
    BY <2>1, <2>2
<1>4. v \in ViewRecord
  <2>1. b \in Errors \cup {None}
    BY <1>1, Innermost DEF Nest, CallRecord
  <2> QED
    BY <2>1 DEF ViewOf, ViewRecord
<1>5. \A i \in 1 .. n : View'[i] = IF i = n THEN v ELSE View[i]
  <2> TAKE i \in 1 .. n
  <2>1. View'[i] = ViewOf(calls[i].fn, Pc(calls[i].fn), calls[i].buffer)'
    BY <1>2, <1>3 DEF Viewed
  <2>2. CASE i = n
    BY <1>1, <1>3, <2>1, <2>2 DEF ViewOf, Pc
  <2>3. CASE i # n
    <3>1. PICK g \in Functions \ {fn} : g = calls[i].fn
      BY <1>1, <2>3
    <3>2. Pc(g)' = Pc(g)
      OBVIOUS
    <3>3. View[i] = ViewOf(g, Pc(g), calls[i].buffer)
      BY <1>2, <3>1 DEF Viewed
    <3>4. calls'[i].fn = g /\ calls'[i].buffer = calls[i].buffer
      BY <1>3, <2>3, <3>1
    <3> QED
      BY <2>1, <2>3, <3>2, <3>3, <3>4 DEF ViewOf, Pc
  <2> QED
    BY <2>2, <2>3
<1> HIDE DEF v, b, n
<1>6. /\ View \in Seq(ViewRecord) /\ View' \in Seq(ViewRecord)
      /\ Len(View) = n /\ Len(View') = n /\ n \in 1 .. n
  BY <1>1, <1>2, <1>3 DEF Viewed
<1>7. /\ [View EXCEPT ![n] = v] \in Seq(ViewRecord) /\ Len([View EXCEPT ![n] = v]) = n
      /\ \A i \in 1 .. n : [View EXCEPT ![n] = v][i] = IF i = n THEN v ELSE View[i]
  BY <1>4, <1>6, ExceptSeq
<1>8. View' = [View EXCEPT ![n] = v]
  BY <1>5, <1>6, <1>7, SeqEqual
<1> QED
  BY <1>6, <1>8 DEF v, b, n

\* The innermost call returns.
LEMMA ViewReturns ==
  ASSUME Nest, Nest', NEW fn \in Functions, Runs(fn), Return,
         \A g \in Functions \ {fn} : Pc(g)' = Pc(g)
  PROVE  View' = SubSeq(View, 1, Len(View) - 1)
<1> DEFINE n == Len(calls)
           r == SubSeq(View, 1, n - 1)
<1>1. /\ Len(View) = n /\ n \in 1 .. 2 /\ calls # <<>>
      /\ \A i \in 1 .. n : i # n => calls[i].fn \in Functions \ {fn}
  BY ViewInnermost
<1>2. Viewed /\ Viewed'
  BY ViewAlways, ViewNext
<1>3. Len(calls') = n - 1 /\ \A i \in 1 .. n - 1 : calls'[i] = calls[i]
  BY <1>1, Returns DEF Nest
<1>4. ASSUME NEW i \in 1 .. n - 1 PROVE View'[i] = View[i]
  <2>1. i \in 1 .. n /\ i # n /\ i \in 1 .. Len(calls')
    BY <1>1, <1>3
  <2>2. PICK g \in Functions \ {fn} : g = calls[i].fn
    BY <1>1, <2>1
  <2>3. Pc(g)' = Pc(g) /\ calls'[i] = calls[i]
    BY <1>3
  <2>4. View'[i] = ViewOf(calls[i].fn, Pc(calls[i].fn), calls[i].buffer)'
    BY <1>2, <2>1 DEF Viewed
  <2>5. View[i] = ViewOf(g, Pc(g), calls[i].buffer)
    BY <1>2, <2>1, <2>2 DEF Viewed
  <2> QED
    BY <2>2, <2>3, <2>4, <2>5 DEF ViewOf, Pc
<1>5. /\ View \in Seq(ViewRecord) /\ View' \in Seq(ViewRecord) /\ Len(View') = n - 1
  BY <1>2, <1>3 DEF Viewed
<1>6. r \in Seq(ViewRecord) /\ Len(r) = n - 1 /\ \A i \in 1 .. n - 1 : r[i] = View[i]
  <2>1. CASE n = 1
    <3>1. r = <<>>
      BY <2>1, SubSeqEmpty
    <3> QED
      BY <2>1, <3>1, EmptySeq
  <2>2. CASE n = 2
    <3>1. View[1] \in ViewRecord
      BY <1>1, <1>5, <2>2, ElementOfSeq
    <3>2. \A i \in 1 .. 1 : View[i] \in ViewRecord
      BY <3>1
    <3>3. /\ SubSeq(View, 1, 1) \in Seq(ViewRecord) /\ Len(SubSeq(View, 1, 1)) = 1
          /\ SubSeq(View, 1, 1)[1] = View[1]
      BY <3>2, SubSeqProperties
    <3> QED
      BY <2>2, <3>3
  <2> QED
    BY <1>1, <2>1, <2>2
<1> HIDE DEF r
<1>7. View' = r
  BY <1>4, <1>5, <1>6, SeqEqual
<1> QED
  BY <1>1, <1>7 DEF r
-----------------------------------------------------------------------------
(***************************************************************************)
(* What makes a step one of ZfsExt.                                        *)
(***************************************************************************)

Answer  == IF outer = "zfs_list" THEN dresult ELSE presult
Warned  == IF outer = "zfs_list" THEN dwarned ELSE pwarned
Aborted == dbailouts + pbailouts

\* What ZfsExt keeps per thread, for the one thread there is.
ByThread(x) == [t \in {"script"} |-> x]

\* To change the one thread's is to change all there is.
LEMMA OneThread ==
  ASSUME NEW x, NEW y
  PROVE  /\ ByThread(x)["script"] = x
         /\ [ByThread(x) EXCEPT !["script"] = y] = ByThread(y)
BY DEF ByThread

\* The thread as ZfsExt sees it.
LEMMA SeenThread ==
  /\ E!Depth("script") = Len(View)
  /\ E!Top("script") = View[Len(View)]
BY DEF E!Depth, E!Top, View

\* Who may call, and with what answer to come.
LEMMA SeenEntry ==
  ASSUME Len(View) \in {0, 1}, View # <<>> => View[Len(View)].pc = "report",
         Answer' = IF View = <<>> THEN "none" ELSE Answer,
         Warned' = IF View = <<>> THEN FALSE ELSE Warned
  PROVE  E!MayCall("script") /\ E!Outermost("script")
<1>1. E!MayCall("script")
  <2>1. ByThread(View)["script"] = View
    BY OneThread
  <2>2. Len(View) < 2
    OBVIOUS
  <2> QED
    BY <2>1, <2>2, SeenThread DEF E!MayCall, View, ByThread
<1>2. E!Outermost("script")
  BY DEF E!Outermost, View, Answer, Warned
<1> QED
  BY <1>1, <1>2

Walked(fn) == [fn |-> fn, pc |-> "walk", list |-> "held", buffer |-> None]
Failed(fn) == [fn |-> fn, pc |-> "failed", list |-> "none", buffer |-> None]

\* A walk begins.
LEMMA SeenBegin ==
  ASSUME NEW fn \in Functions, View' = Append(View, Walked(fn)),
         E!MayCall("script"), E!Outermost("script"),
         walks' = IF fn = "zpool_list" THEN walks + 1 ELSE walks,
         UNCHANGED <<desc, Aborted>>
  PROVE  E!Begin("script", fn)
<1> DEFINE now   == ByThread(View)
           after == [now EXCEPT !["script"] = Append(@, E!NewCall(fn, "walk", "held"))]
<1>1. after = ByThread(View')
  <2>1. after = [now EXCEPT !["script"] = Append(View, Walked(fn))]
    BY OneThread DEF Walked, E!NewCall
  <2> QED
    BY <2>1, OneThread
<1> QED
  BY <1>1 DEF E!Begin, E!handleVars, View, ByThread, Aborted

\* A walk cannot begin.
LEMMA SeenBeginFails ==
  ASSUME NEW fn \in Functions, View' = Append(View, Failed(fn)),
         E!MayCall("script"), E!Outermost("script"),
         fn = "zfs_list" \/ walks = 0,
         desc' = E!Error("script", Len(View) + 1, "walk"),
         UNCHANGED <<walks, Aborted>>
  PROVE  E!BeginFails("script", fn)
<1> DEFINE now   == ByThread(View)
           after == [now EXCEPT !["script"] = Append(@, E!NewCall(fn, "failed", "none"))]
<1>1. after = ByThread(View')
  <2>1. after = [now EXCEPT !["script"] = Append(View, Failed(fn))]
    BY OneThread DEF Failed, E!NewCall
  <2> QED
    BY <2>1, OneThread
<1> QED
  BY <1>1, SeenThread DEF E!BeginFails, E!Loads, E!handleVars, View, ByThread, Aborted

\* The last call of the thread is replaced, or returns.
LEMMA SeenTop ==
  ASSUME View # <<>>
  PROVE  /\ \A v : View' = [View EXCEPT ![Len(View)] = v] => E!SetTop("script", v)
         /\ View' = SubSeq(View, 1, Len(View) - 1) => E!Return("script")
         /\ \A pc : View[Len(View)].pc = pc => E!InTop("script", pc)
<1>1. ASSUME NEW v, View' = [View EXCEPT ![Len(View)] = v] PROVE E!SetTop("script", v)
  <2>1. [ByThread(View) EXCEPT !["script"][Len(View)] = v]
          = [ByThread(View) EXCEPT !["script"] = [View EXCEPT ![Len(View)] = v]]
    BY OneThread
  <2>2. [ByThread(View) EXCEPT !["script"][Len(View)] = v] = ByThread(View')
    BY <1>1, <2>1, OneThread
  <2> QED
    BY <2>2, SeenThread DEF E!SetTop, View, ByThread
<1>2. ASSUME View' = SubSeq(View, 1, Len(View) - 1) PROVE E!Return("script")
  <2>1. [ByThread(View) EXCEPT !["script"] = SubSeq(@, 1, Len(@) - 1)] = ByThread(View')
    BY <1>2, OneThread
  <2> QED
    BY <2>1 DEF E!Return, View, ByThread
<1>3. ASSUME NEW pc, View[Len(View)].pc = pc PROVE E!InTop("script", pc)
  <2>1. ByThread(View)["script"] = View
    BY OneThread
  <2> QED
    BY <1>3, <2>1, SeenThread DEF E!InTop, View, ByThread
<1> QED
  BY <1>1, <1>2, <1>3

Last == View[Len(View)]

\* The iteration over a dataset's children fails.
LEMMA SeenChildFails ==
  ASSUME View # <<>>, Last.pc = "walk", Last.fn = "zfs_list", View' = View,
         desc' = E!Error("script", Len(View), "child"),
         UNCHANGED <<walks, Answer, Warned, Aborted>>
  PROVE  E!ChildFails("script")
BY SeenTop, SeenThread DEF Last, E!ChildFails, E!handleVars, View, Answer, Warned, Aborted

\* The walk fails.
LEMMA SeenWalkFails ==
  ASSUME View # <<>>, Last.pc = "walk",
         View' = [View EXCEPT ![Len(View)] = [Last EXCEPT !.pc = "failed", !.list = "none"]],
         walks' = IF Last.fn = "zpool_list" THEN walks - 1 ELSE walks,
         desc' = E!Error("script", Len(View), "walk"),
         UNCHANGED <<Answer, Warned, Aborted>>
  PROVE  E!WalkFails("script")
<1>1. E!InTop("script", "walk") /\ E!SetTop("script", [Last EXCEPT !.pc = "failed", !.list = "none"])
  BY SeenTop DEF Last
<1> QED
  BY <1>1, SeenThread DEF Last, E!WalkFails, E!Uncounted, E!handleVars, Answer, Warned, Aborted

\* The walk is over.
LEMMA SeenWalkDone ==
  ASSUME View # <<>>, Last.pc = "walk", View' = SubSeq(View, 1, Len(View) - 1),
         walks' = IF Last.fn = "zpool_list" THEN walks - 1 ELSE walks,
         Answer' = IF Len(View) = 1 THEN "array" ELSE Answer,
         UNCHANGED <<desc, Warned, Aborted>>
  PROVE  E!WalkDone("script")
<1>1. E!InTop("script", "walk") /\ E!Return("script")
  BY SeenTop DEF Last
<1> QED
  BY <1>1, SeenThread DEF Last, E!WalkDone, E!Uncounted, E!handleVars, Answer, Warned, Aborted

\* The error is described.
LEMMA SeenDescribe ==
  ASSUME View # <<>>, Last.pc = "failed",
         View' = [View EXCEPT ![Len(View)] = [Last EXCEPT !.pc = "report", !.buffer = desc]],
         Warned' = IF Len(View) = 1 THEN TRUE ELSE Warned,
         UNCHANGED <<desc, walks, Answer, Aborted>>
  PROVE  E!Describe("script")
<1>1. E!InTop("script", "failed") /\ E!SetTop("script", [Last EXCEPT !.pc = "report", !.buffer = desc])
  BY SeenTop DEF Last
<1> QED
  BY <1>1, SeenThread DEF Last, E!Describe, E!handleVars, Answer, Warned, Aborted

\* The call returns false.
LEMMA SeenReturnFalse ==
  ASSUME View # <<>>, Last.pc = "report", View' = SubSeq(View, 1, Len(View) - 1),
         Answer' = IF Len(View) = 1 THEN "false" ELSE Answer,
         UNCHANGED <<desc, walks, Warned, Aborted>>
  PROVE  E!ReturnFalse("script")
<1>1. E!InTop("script", "report") /\ E!Return("script")
  BY SeenTop DEF Last
<1> QED
  BY <1>1, SeenThread DEF Last, E!ReturnFalse, E!handleVars, Answer, Warned, Aborted

\* The request is abandoned.
LEMMA SeenBailout ==
  ASSUME View # <<>>, View' = <<>>,
         \/ Last.pc = "walk" /\ Aborted < 2 * MaxBailouts /\ Aborted' = Aborted + 1
         \/ Last.pc = "report" /\ Aborted' = Aborted,
         UNCHANGED <<desc, walks, Answer, Warned>>
  PROVE  E!Bailout("script")
<1>1. \A pc : Last.pc = pc => E!InTop("script", pc)
  BY SeenTop DEF Last
<1>2. [ByThread(View) EXCEPT !["script"] = <<>>] = ByThread(View')
  BY OneThread
<1> QED
  BY <1>1, <1>2 DEF E!Bailout, E!handleVars, View, ByThread, Answer, Warned, Aborted

\* Nothing ZfsExt knows of changes.
LEMMA SeenStutter ==
  ASSUME View' = View, UNCHANGED <<desc, walks, Answer, Warned, Aborted>>
  PROVE  UNCHANGED E!vars
BY DEF E!vars, E!handleVars, View, Answer, Warned, Aborted
-----------------------------------------------------------------------------
(***************************************************************************)
(* Every step is one of ZfsExt, or none to it.                             *)
(***************************************************************************)

\* The script waits for the innermost call just if there is no other.
LEMMA OuterRuns ==
  ASSUME Nest, NEW fn \in Functions, Runs(fn)
  PROVE  Len(View) = 1 <=> outer = fn
<1>1. /\ Len(View) = Len(calls) /\ Len(calls) \in 1 .. 2 /\ calls # <<>>
      /\ calls[Len(calls)].fn = fn
  BY ViewInnermost
<1>2. Len(calls) = 2 => calls[1].fn # calls[2].fn
  BY DEF Nest, OnlyInnermostRuns
<1> QED
  BY <1>1, <1>2 DEF Nest

\* The steps inside a walk leave no trace.
LEMMA SameView ==
  ASSUME Nest, Nest', NEW fn \in Functions, Runs(fn), Stays,
         \A g \in Functions \ {fn} : Pc(g)' = Pc(g),
         ViewOf(fn, Pc(fn)', None) = ViewOf(fn, Pc(fn), None)
  PROVE  View' = View
<1>1. /\ Last = ViewOf(fn, Pc(fn), calls[Len(calls)].buffer)
      /\ View' = [View EXCEPT ![Len(View)] = ViewOf(fn, Pc(fn)', calls[Len(calls)].buffer)]
  BY ViewInnermost, ViewStays DEF Last
<1>2. ViewOf(fn, Pc(fn)', calls[Len(calls)].buffer) = Last
  BY <1>1 DEF ViewOf
<1>3. [View EXCEPT ![Len(View)] = View[Len(View)]] = View
  BY DEF View
<1> QED
  BY <1>1, <1>2, <1>3 DEF Last

\* A call is entered, on the way to a walk.
LEMMA EntersSeen ==
  ASSUME Nest, Nest', NEW fn \in Functions, MayCall(fn), Enter(fn),
         \A g \in Functions \ {fn} : Pc(g)' = Pc(g),
         fn = "zfs_list" => dresult' = "none" /\ dwarned' = FALSE /\ UNCHANGED <<presult, pwarned>>,
         fn = "zpool_list" => presult' = "none" /\ pwarned' = FALSE /\ UNCHANGED <<dresult, dwarned>>
  PROVE  /\ E!MayCall("script") /\ E!Outermost("script")
         /\ View' = Append(View, ViewOf(fn, Pc(fn)', None))
         /\ Len(View) = Len(calls)
<1>1. /\ View' = Append(View, ViewOf(fn, Pc(fn)', None))
      /\ View = <<>> <=> calls = <<>>
      /\ calls # <<>> => View[Len(View)].pc = "report"
      /\ Len(View) = Len(calls) /\ Len(calls) \in {0, 1}
  BY ViewEnters
<1>2. calls # <<>> => outer \in Functions /\ outer # fn
  BY CallerWaits DEF Nest
<1>3. /\ Answer' = IF View = <<>> THEN "none" ELSE Answer
      /\ Warned' = IF View = <<>> THEN FALSE ELSE Warned
  BY <1>1, <1>2 DEF Answer, Warned, Enter, Functions
<1> QED
  BY <1>1, <1>3, SeenEntry

\* zfs_list() begins.
LEMMA ZfsListBeginsSeen ==
  ASSUME Nest, Nest', ZfsListBegins
  PROVE  E!Begin("script", "zfs_list")
<1>1. /\ MayCall("zfs_list") /\ Enter("zfs_list") /\ dpc' = "library"
      /\ dresult' = "none" /\ dwarned' = FALSE
      /\ UNCHANGED <<ppc, presult, pwarned, desc, walks, dbailouts, pbailouts>>
  BY DEF ZfsListBegins, D!Begin, poolVars
<1>2. "zfs_list" \in Functions /\ \A g \in Functions \ {"zfs_list"} : Pc(g)' = Pc(g)
  BY <1>1 DEF Functions, Pc
<1>3. /\ E!MayCall("script") /\ E!Outermost("script")
      /\ View' = Append(View, ViewOf("zfs_list", Pc("zfs_list")', None))
  BY <1>1, <1>2, EntersSeen
<1>4. ViewOf("zfs_list", Pc("zfs_list")', None) = Walked("zfs_list")
  BY <1>1 DEF ViewOf, Walked, Pc
<1> QED
  BY <1>1, <1>2, <1>3, <1>4, SeenBegin DEF Aborted

\* zpool_list() begins, or cannot.
LEMMA ZpoolListBeginsSeen ==
  ASSUME Nest, Nest', ZpoolListBegins
  PROVE  E!Begin("script", "zpool_list") \/ E!BeginFails("script", "zpool_list")
<1>1. /\ MayCall("zpool_list") /\ Enter("zpool_list")
      /\ presult' = "none" /\ pwarned' = FALSE
      /\ UNCHANGED <<dpc, dresult, dwarned, dbailouts, pbailouts>>
  BY DEF ZpoolListBegins, P!Begin, P!BeginFails, P!Enter, datasetVars
<1>2. "zpool_list" \in Functions /\ \A g \in Functions \ {"zpool_list"} : Pc(g)' = Pc(g)
  BY <1>1 DEF Functions, Pc
<1>3. /\ E!MayCall("script") /\ E!Outermost("script")
      /\ View' = Append(View, ViewOf("zpool_list", Pc("zpool_list")', None))
      /\ Len(View) = Len(calls)
  BY <1>1, <1>2, EntersSeen
<1>4. CASE ppc' = "library" /\ walks' = walks + 1 /\ UNCHANGED desc
  <2>1. ViewOf("zpool_list", Pc("zpool_list")', None) = Walked("zpool_list")
    BY <1>4 DEF ViewOf, Walked, Pc
  <2> QED
    BY <1>1, <1>2, <1>3, <1>4, <2>1, SeenBegin DEF Aborted
<1>5. CASE /\ ppc' = "failed" /\ walks = 0 /\ UNCHANGED walks
           /\ desc' = [Error("walk") EXCEPT !.depth = Len(calls) + 1]
  <2>1. ViewOf("zpool_list", Pc("zpool_list")', None) = Failed("zpool_list")
    BY <1>5 DEF ViewOf, Failed, Pc
  <2>2. desc' = E!Error("script", Len(View) + 1, "walk")
    BY <1>3, <1>5 DEF Error, E!Error
  <2> QED
    BY <1>1, <1>2, <1>3, <1>5, <2>1, <2>2, SeenBeginFails DEF Aborted
<1> QED
  BY <1>4, <1>5 DEF ZpoolListBegins, P!Begin, P!BeginFails

\* Two records with the same fields are the same.
LEMMA SameRecord ==
  ASSUME NEW q \in ViewRecord, NEW r \in ViewRecord,
         q.fn = r.fn, q.pc = r.pc, q.list = r.list, q.buffer = r.buffer
  PROVE  q = r
BY DEF ViewRecord

\* What a step of the innermost call does to the last record.
LEMMA RunsSeen ==
  ASSUME Nest, Nest', NEW fn \in Functions, Runs(fn),
         \A g \in Functions \ {fn} : Pc(g)' = Pc(g)
  PROVE  /\ View # <<>> /\ calls # <<>> /\ Len(View) = Len(calls)
         /\ Last = ViewOf(fn, Pc(fn), calls[Len(calls)].buffer) /\ Last.fn = fn
         /\ Stays /\ ViewOf(fn, Pc(fn)', None) = ViewOf(fn, Pc(fn), None) => View' = View
         /\ Stays /\ Pc(fn)' = "failed" =>
              View' = [View EXCEPT ![Len(View)] = [Last EXCEPT !.pc = "failed", !.list = "none"]]
         /\ Describe /\ Pc(fn) = "failed" /\ Pc(fn)' = "refused" =>
              View' = [View EXCEPT ![Len(View)] = [Last EXCEPT !.pc = "report", !.buffer = desc]]
         /\ Return => View' = SubSeq(View, 1, Len(View) - 1)
<1>1. /\ View # <<>> /\ calls # <<>> /\ Len(View) = Len(calls)
      /\ Last = ViewOf(fn, Pc(fn), calls[Len(calls)].buffer)
      /\ calls[Len(calls)].buffer \in Errors \cup {None} /\ desc \in Errors \cup {None}
  BY ViewInnermost, Innermost DEF Last, Nest, CallRecord
<1>2. Last \in ViewRecord /\ Last.fn = fn /\ Last.buffer = calls[Len(calls)].buffer
  BY <1>1 DEF ViewOf, ViewRecord
<1>3. ASSUME Stays, Pc(fn)' = "failed"
      PROVE  View' = [View EXCEPT ![Len(View)] = [Last EXCEPT !.pc = "failed", !.list = "none"]]
  <2>1. View' = [View EXCEPT ![Len(View)] = ViewOf(fn, Pc(fn)', calls[Len(calls)].buffer)]
    BY <1>3, ViewStays
  <2>2. ViewOf(fn, Pc(fn)', calls[Len(calls)].buffer) = [Last EXCEPT !.pc = "failed", !.list = "none"]
    <3> DEFINE v == ViewOf(fn, Pc(fn)', calls[Len(calls)].buffer)
               q == [Last EXCEPT !.pc = "failed", !.list = "none"]
    <3>1. /\ v \in ViewRecord
          /\ v.fn = fn /\ v.pc = "failed" /\ v.list = "none" /\ v.buffer = calls[Len(calls)].buffer
      BY <1>1, <1>3 DEF ViewOf, ViewRecord
    <3>2. /\ q \in ViewRecord
          /\ q.fn = Last.fn /\ q.pc = "failed" /\ q.list = "none" /\ q.buffer = Last.buffer
      BY <1>2 DEF ViewRecord
    <3> HIDE DEF v, q
    <3>3. v = q
      BY <1>2, <3>1, <3>2, SameRecord
    <3> QED
      BY <3>3 DEF v, q
  <2> QED
    BY <2>1, <2>2
<1>4. ASSUME Describe, Pc(fn) = "failed", Pc(fn)' = "refused"
      PROVE  View' = [View EXCEPT ![Len(View)] = [Last EXCEPT !.pc = "report", !.buffer = desc]]
  <2> DEFINE b == IF Stays THEN calls[Len(calls)].buffer ELSE desc
  <2>1. View' = [View EXCEPT ![Len(View)] = ViewOf(fn, Pc(fn)', b)]
    BY <1>4, ViewStays
  <2>2. b = desc
    <3>1. calls'[Len(calls)].buffer = desc
      BY <1>1, <1>4, Describes, Innermost DEF Nest
    <3> QED
      BY <3>1 DEF Stays
  <2>3. ViewOf(fn, Pc(fn)', desc) = [Last EXCEPT !.pc = "report", !.buffer = desc]
    <3> DEFINE v == ViewOf(fn, Pc(fn)', desc)
               q == [Last EXCEPT !.pc = "report", !.buffer = desc]
    <3>1. /\ v \in ViewRecord
          /\ v.fn = fn /\ v.pc = "report" /\ v.list = "none" /\ v.buffer = desc
      BY <1>1, <1>4 DEF ViewOf, ViewRecord
    <3>2. /\ q \in ViewRecord
          /\ q.fn = Last.fn /\ q.pc = "report" /\ q.list = Last.list /\ q.buffer = desc
      BY <1>1, <1>2 DEF ViewRecord
    <3>3. Last.list = "none"
      BY <1>1, <1>4 DEF ViewOf
    <3> HIDE DEF v, q
    <3>4. v = q
      BY <1>2, <3>1, <3>2, <3>3, SameRecord
    <3> QED
      BY <3>4 DEF v, q
  <2> QED
    BY <2>1, <2>2, <2>3
<1> QED
  BY <1>1, <1>3, <1>4, <1>2, SameView, ViewReturns

\* zfs_list() runs: the steps within its walk are none to ZfsExt.
LEMMA ZfsListRunsSeen ==
  ASSUME Nest, Nest', ZfsListRuns
  PROVE  [E!Next]_(E!vars)
<1>0. "zfs_list" \in Functions /\ \A g \in Functions \ {"zfs_list"} : Pc(g)' = Pc(g)
  BY DEF Functions, Pc, ZfsListRuns, poolVars
<1>1. /\ Runs("zfs_list")
      /\ UNCHANGED <<walks, presult, pwarned, pbailouts>>
  BY DEF ZfsListRuns, poolVars
<1>2. /\ View # <<>> /\ Len(View) = Len(calls)
      /\ Last = ViewOf("zfs_list", dpc, calls[Len(calls)].buffer)
      /\ Last.fn = "zfs_list"
      /\ Len(View) = 1 <=> outer = "zfs_list"
  <2>1. Pc("zfs_list") = dpc
    BY DEF Pc
  <2>2. /\ View # <<>> /\ Len(View) = Len(calls)
        /\ Last = ViewOf("zfs_list", Pc("zfs_list"), calls[Len(calls)].buffer)
        /\ Last.fn = "zfs_list"
    BY <1>0, <1>1, RunsSeen
  <2>3. Len(View) = 1 <=> outer = "zfs_list"
    BY <1>0, <1>1, OuterRuns
  <2> QED
    BY <2>1, <2>2, <2>3
<1>3. ASSUME E!ChildFails("script") \/ E!WalkFails("script") \/ E!WalkDone("script")
               \/ E!Describe("script") \/ E!ReturnFalse("script")
      PROVE  E!Next
  BY <1>3 DEF E!Next
<1>4. CASE /\ (\E n \in Names : D!OpenNext(n) \/ D!SkipNext(n)) \/ D!AddRow \/ D!ChildrenDone
           /\ Stays /\ UNCHANGED desc
  <2>1. /\ dpc \in {"library", "callback"} /\ dpc' \in {"library", "callback"}
        /\ UNCHANGED <<dresult, dwarned, dbailouts>>
    BY <1>4 DEF D!OpenNext, D!SkipNext, D!AddRow, D!ChildrenDone, D!InLibrary
  <2>2. View' = View
    BY <1>0, <1>1, <1>4, <2>1, RunsSeen DEF ViewOf, Pc
  <2> QED
    BY <1>1, <1>4, <2>1, <2>2, SeenStutter DEF Answer, Warned, Aborted, Stays
<1>5. CASE D!ChildrenFail /\ Stays /\ desc' = Error("child")
  <2>1. /\ dpc = "library" /\ dpc' = "library" /\ UNCHANGED <<dresult, dwarned, dbailouts>>
    BY <1>5 DEF D!ChildrenFail, D!InLibrary
  <2>2. View' = View
    BY <1>0, <1>1, <1>5, <2>1, RunsSeen DEF ViewOf, Pc
  <2>3. desc' = E!Error("script", Len(View), "child") /\ Last.pc = "walk"
    BY <1>2, <1>5, <2>1 DEF Error, E!Error, ViewOf
  <2> QED
    BY <1>1, <1>2, <1>3, <1>5, <2>1, <2>2, <2>3, SeenChildFails DEF Answer, Warned, Aborted, Stays
<1>6. CASE D!RootDone /\ Return /\ UNCHANGED desc
  <2>1. /\ dpc = "library" /\ dresult' = "array" /\ UNCHANGED <<dwarned, dbailouts, outer>>
    BY <1>6 DEF D!RootDone, D!AtRoot, D!InLibrary, Return
  <2>2. View' = SubSeq(View, 1, Len(View) - 1)
    BY <1>0, <1>1, <1>6, RunsSeen
  <2>3. Last.pc = "walk" /\ Answer' = (IF Len(View) = 1 THEN "array" ELSE Answer)
    BY <1>1, <1>2, <2>1 DEF ViewOf, Answer
  <2> QED
    BY <1>1, <1>2, <1>3, <1>6, <2>1, <2>2, <2>3, SeenWalkDone DEF Warned, Aborted
<1>7. CASE D!RootFail /\ Stays /\ desc' = Error("walk")
  <2>1. /\ dpc = "library" /\ dpc' = "failed" /\ UNCHANGED <<dresult, dwarned, dbailouts>>
    BY <1>7 DEF D!RootFail, D!AtRoot, D!InLibrary
  <2>2. View' = [View EXCEPT ![Len(View)] = [Last EXCEPT !.pc = "failed", !.list = "none"]]
    BY <1>0, <1>1, <1>7, <2>1, RunsSeen DEF Pc
  <2>3. desc' = E!Error("script", Len(View), "walk") /\ Last.pc = "walk"
    BY <1>2, <1>7, <2>1 DEF Error, E!Error, ViewOf
  <2> QED
    BY <1>1, <1>2, <1>3, <1>7, <2>1, <2>2, <2>3, SeenWalkFails DEF Answer, Warned, Aborted, Stays
<1>8. CASE D!Warn /\ Describe /\ UNCHANGED desc
  <2>1. /\ dpc = "failed" /\ dpc' = "refused" /\ dwarned' = TRUE
        /\ UNCHANGED <<dresult, dbailouts, outer>>
    BY <1>8 DEF D!Warn, Describe
  <2>2. View' = [View EXCEPT ![Len(View)] = [Last EXCEPT !.pc = "report", !.buffer = desc]]
    BY <1>0, <1>1, <1>8, <2>1, RunsSeen DEF Pc
  <2>3. Last.pc = "failed" /\ Warned' = (IF Len(View) = 1 THEN TRUE ELSE Warned)
    BY <1>1, <1>2, <2>1 DEF ViewOf, Warned
  <2> QED
    BY <1>1, <1>2, <1>3, <1>8, <2>1, <2>2, <2>3, SeenDescribe DEF Answer, Aborted
<1>9. CASE D!ReturnFalse /\ Return /\ UNCHANGED desc
  <2>1. /\ dpc = "refused" /\ dresult' = "false" /\ UNCHANGED <<dwarned, dbailouts, outer>>
    BY <1>9 DEF D!ReturnFalse, Return
  <2>2. View' = SubSeq(View, 1, Len(View) - 1)
    BY <1>0, <1>1, <1>9, RunsSeen
  <2>3. Last.pc = "report" /\ Answer' = (IF Len(View) = 1 THEN "false" ELSE Answer)
    BY <1>1, <1>2, <2>1 DEF ViewOf, Answer
  <2> QED
    BY <1>1, <1>2, <1>3, <1>9, <2>1, <2>2, <2>3, SeenReturnFalse DEF Warned, Aborted
<1> QED
  BY <1>4, <1>5, <1>6, <1>7, <1>8, <1>9 DEF ZfsListRuns

\* zpool_list() runs.
LEMMA ZpoolListRunsSeen ==
  ASSUME Nest, Nest', ZpoolListRuns
  PROVE  [E!Next]_(E!vars)
<1>0. "zpool_list" \in Functions /\ \A g \in Functions \ {"zpool_list"} : Pc(g)' = Pc(g)
  BY DEF Functions, Pc, ZpoolListRuns, datasetVars
<1>1. /\ Runs("zpool_list")
      /\ UNCHANGED <<dresult, dwarned, dbailouts>>
  BY DEF ZpoolListRuns, datasetVars
<1>2. /\ View # <<>> /\ Len(View) = Len(calls)
      /\ Last = ViewOf("zpool_list", ppc, calls[Len(calls)].buffer)
      /\ Last.fn = "zpool_list"
      /\ Len(View) = 1 <=> outer = "zpool_list"
  <2>1. Pc("zpool_list") = ppc
    BY DEF Pc
  <2>2. /\ View # <<>> /\ Len(View) = Len(calls)
        /\ Last = ViewOf("zpool_list", Pc("zpool_list"), calls[Len(calls)].buffer)
        /\ Last.fn = "zpool_list"
    BY <1>0, <1>1, RunsSeen
  <2>3. Len(View) = 1 <=> outer = "zpool_list"
    BY <1>0, <1>1, OuterRuns
  <2> QED
    BY <2>1, <2>2, <2>3
<1>3. ASSUME E!WalkFails("script") \/ E!WalkDone("script")
               \/ E!Describe("script") \/ E!ReturnFalse("script")
      PROVE  E!Next
  BY <1>3 DEF E!Next
<1>4. outer \in Functions
  BY DEF Nest
<1>5. CASE /\ \E p \in Pools : P!OpenNext(p) \/ P!SkipNext(p) \/ P!AddRow(p)
           /\ Stays /\ UNCHANGED desc
  <2>1. /\ ppc \in {"library", "callback"} /\ ppc' \in {"library", "callback"}
        /\ UNCHANGED <<walks, presult, pwarned, pbailouts>>
    BY <1>5 DEF P!OpenNext, P!SkipNext, P!AddRow, P!InCallback
  <2>2. View' = View
    BY <1>0, <1>1, <1>5, <2>1, RunsSeen DEF ViewOf, Pc
  <2> QED
    BY <1>1, <1>5, <2>1, <2>2, SeenStutter DEF Answer, Warned, Aborted, Stays
<1>6. CASE P!Done /\ Return /\ UNCHANGED desc
  <2>1. /\ ppc = "library" /\ presult' = "array" /\ walks' = walks - 1
        /\ UNCHANGED <<pwarned, pbailouts, outer>>
    BY <1>6 DEF P!Done, Return
  <2>2. View' = SubSeq(View, 1, Len(View) - 1)
    BY <1>0, <1>1, <1>6, RunsSeen
  <2>3. Last.pc = "walk" /\ Answer' = (IF Len(View) = 1 THEN "array" ELSE Answer)
    BY <1>1, <1>2, <1>4, <2>1 DEF ViewOf, Answer, Functions
  <2> QED
    BY <1>1, <1>2, <1>3, <1>6, <2>1, <2>2, <2>3, SeenWalkDone DEF Warned, Aborted
<1>7. CASE P!WalkFails /\ Stays /\ desc' = Error("walk")
  <2>1. /\ ppc = "library" /\ ppc' = "failed" /\ walks' = walks - 1
        /\ UNCHANGED <<presult, pwarned, pbailouts>>
    BY <1>7 DEF P!WalkFails
  <2>2. View' = [View EXCEPT ![Len(View)] = [Last EXCEPT !.pc = "failed", !.list = "none"]]
    BY <1>0, <1>1, <1>7, <2>1, RunsSeen DEF Pc
  <2>3. desc' = E!Error("script", Len(View), "walk") /\ Last.pc = "walk"
    BY <1>2, <1>7, <2>1 DEF Error, E!Error, ViewOf
  <2> QED
    BY <1>1, <1>2, <1>3, <1>7, <2>1, <2>2, <2>3, SeenWalkFails DEF Answer, Warned, Aborted, Stays
<1>8. CASE P!Warn /\ Describe /\ UNCHANGED desc
  <2>1. /\ ppc = "failed" /\ ppc' = "refused" /\ pwarned' = TRUE
        /\ UNCHANGED <<walks, presult, pbailouts, outer>>
    BY <1>8 DEF P!Warn, Describe
  <2>2. View' = [View EXCEPT ![Len(View)] = [Last EXCEPT !.pc = "report", !.buffer = desc]]
    BY <1>0, <1>1, <1>8, <2>1, RunsSeen DEF Pc
  <2>3. Last.pc = "failed" /\ Warned' = (IF Len(View) = 1 THEN TRUE ELSE Warned)
    BY <1>1, <1>2, <1>4, <2>1 DEF ViewOf, Warned, Functions
  <2> QED
    BY <1>1, <1>2, <1>3, <1>8, <2>1, <2>2, <2>3, SeenDescribe DEF Answer, Aborted
<1>9. CASE P!ReturnFalse /\ Return /\ UNCHANGED desc
  <2>1. /\ ppc = "refused" /\ presult' = "false"
        /\ UNCHANGED <<walks, pwarned, pbailouts, outer>>
    BY <1>9 DEF P!ReturnFalse, Return
  <2>2. View' = SubSeq(View, 1, Len(View) - 1)
    BY <1>0, <1>1, <1>9, RunsSeen
  <2>3. Last.pc = "report" /\ Answer' = (IF Len(View) = 1 THEN "false" ELSE Answer)
    BY <1>1, <1>2, <1>4, <2>1 DEF ViewOf, Answer, Functions
  <2> QED
    BY <1>1, <1>2, <1>3, <1>9, <2>1, <2>2, <2>3, SeenReturnFalse DEF Warned, Aborted
<1> QED
  BY <1>5, <1>6, <1>7, <1>8, <1>9 DEF ZpoolListRuns

\* How many walks of each kind were aborted.
Bounds == dbailouts \in 0 .. MaxBailouts /\ pbailouts \in 0 .. MaxBailouts

\* They stay within their bound.
LEMMA BoundsStep == Bounds /\ [Next]_vars => Bounds'
<1> SUFFICES ASSUME Bounds, [Next]_vars PROVE Bounds'
  OBVIOUS
<1>1. MaxBailouts \in Nat
  BY HandleAssumption DEF D!TreeAssumption
<1>2. dbailouts' = dbailouts \/ (dbailouts < MaxBailouts /\ dbailouts' = dbailouts + 1)
  BY DEF Next, Create, Destroy, ZfsListBegins, ZfsListRuns, ZpoolListBegins, ZpoolListRuns, Abandon,
     vars, datasetVars, D!Create, D!Destroy, D!callVars, D!Begin, D!OpenNext, D!SkipNext, D!AddRow,
     D!ChildrenDone, D!ChildrenFail, D!RootDone, D!RootFail, D!Warn, D!ReturnFalse, D!Bailout,
     D!AbandonInHandler
<1>3. pbailouts' = pbailouts \/ (pbailouts < MaxBailouts /\ pbailouts' = pbailouts + 1)
  BY DEF Next, Create, Destroy, ZfsListBegins, ZfsListRuns, ZpoolListBegins, ZpoolListRuns, Abandon,
     vars, poolVars, P!Import, P!Export, P!callVars, P!Begin, P!BeginFails, P!Enter, P!OpenNext,
     P!SkipNext, P!AddRow, P!Done, P!WalkFails, P!Warn, P!ReturnFalse, P!Bailout, P!AbandonInHandler
<1>4. ASSUME NEW m \in Nat, NEW x \in 0 .. m, NEW y, y = x \/ (x < m /\ y = x + 1)
      PROVE  y \in 0 .. m
  BY <1>4
<1> QED
  BY <1>1, <1>2, <1>3, <1>4 DEF Bounds

\* Two counts within their bounds, of which the first may still grow.
LEMMA SumBelow ==
  ASSUME NEW m \in Nat, NEW x \in 0 .. m, NEW y \in 0 .. m
  PROVE  /\ x < m => x + y < 2 * m /\ (x + 1) + y = (x + y) + 1
         /\ y < m => x + y < 2 * m /\ x + (y + 1) = (x + y) + 1
OBVIOUS

\* The request is abandoned: one walk at most is aborted, the innermost call's.
LEMMA AbandonSeen ==
  ASSUME Nest, Nest', Bounds, Abandon
  PROVE  E!Bailout("script")
<1>1. /\ calls # <<>> /\ calls' = <<>> /\ UNCHANGED <<desc, walks, outer>>
      /\ UNCHANGED <<dresult, dwarned, presult, pwarned>>
  BY DEF Abandon, handleVars, datasetVars, poolVars, D!Bailout, D!AbandonInHandler, P!Bailout,
     P!AbandonInHandler
<1>2. View' = <<>>
  <2>1. Viewed'
    BY ViewNext
  <2> QED
    BY <1>1, <2>1 DEF Viewed
<1>3. Runs(Inner.fn) /\ Inner.fn \in Functions
  BY <1>1, Innermost DEF Runs, Inner, Nest
<1>4. /\ View # <<>>
      /\ Last = ViewOf(Inner.fn, Pc(Inner.fn), calls[Len(calls)].buffer)
  BY <1>3, ViewInnermost DEF Last
\* The other call, if there is one, stands in its warning.
<1>5. ASSUME NEW g \in Functions, g # Inner.fn PROVE Pc(g) \in {"idle", "refused"}
  <2>1. /\ Len(calls) \in 1 .. 2 /\ calls[Len(calls)].fn = Inner.fn
    BY <1>3, ViewInnermost
  <2>2. Pc(g) = "idle" <=> \A i \in 1 .. Len(calls) : calls[i].fn # g
    BY DEF Nest, OnlyInnermostRuns
  <2>3. ASSUME NEW i \in 1 .. Len(calls), calls[i].fn = g PROVE Pc(g) = "refused"
    <3>1. i # Len(calls)
      BY <1>5, <2>1, <2>3
    <3>2. Len(calls) = 2 /\ i = 1
      BY <2>1, <3>1, FirstOfTwo
    <3> QED
      BY <2>3, <3>2 DEF Nest, OnlyInnermostRuns
  <2> QED
    BY <2>2, <2>3
<1>6. Pc(Inner.fn) # "idle"
  <2>1. Len(calls) \in 1 .. Len(calls) /\ calls[Len(calls)].fn = Inner.fn
    BY <1>3, ViewInnermost
  <2> QED
    BY <1>3, <2>1 DEF Nest, OnlyInnermostRuns
<1>7. /\ MaxBailouts \in Nat /\ dbailouts \in 0 .. MaxBailouts /\ pbailouts \in 0 .. MaxBailouts
  BY HandleAssumption DEF Bounds, D!TreeAssumption
<1>8. \/ Pc(Inner.fn) = "callback" /\ Aborted < 2 * MaxBailouts /\ Aborted' = Aborted + 1
      \/ Pc(Inner.fn) = "refused" /\ Aborted' = Aborted
  <2>1. CASE Inner.fn = "zfs_list"
    <3>1. ppc \in {"idle", "refused"} /\ dpc # "idle"
      BY <1>5, <1>6, <2>1 DEF Functions, Pc
    <3>2. UNCHANGED pbailouts
      BY <3>1 DEF Abandon, poolVars, P!Bailout, P!AbandonInHandler
    <3>3. \/ dpc = "callback" /\ dbailouts < MaxBailouts /\ dbailouts' = dbailouts + 1
          \/ dpc = "refused" /\ UNCHANGED dbailouts
      BY <3>1 DEF Abandon, D!Bailout, D!AbandonInHandler
    <3> QED
      BY <1>7, <2>1, <3>2, <3>3, SumBelow DEF Aborted, Pc
  <2>2. CASE Inner.fn = "zpool_list"
    <3>1. dpc \in {"idle", "refused"} /\ ppc # "idle"
      BY <1>5, <1>6, <2>2 DEF Functions, Pc
    <3>2. UNCHANGED dbailouts
      BY <3>1 DEF Abandon, datasetVars, D!Bailout, D!AbandonInHandler
    <3>3. \/ ppc = "callback" /\ pbailouts < MaxBailouts /\ pbailouts' = pbailouts + 1
          \/ ppc = "refused" /\ UNCHANGED pbailouts
      BY <3>1 DEF Abandon, P!Bailout, P!AbandonInHandler
    <3> QED
      BY <1>7, <2>2, <3>2, <3>3, SumBelow DEF Aborted, Pc
  <2> QED
    BY <1>3, <2>1, <2>2 DEF Functions
<1>9. \/ Last.pc = "walk" /\ Aborted < 2 * MaxBailouts /\ Aborted' = Aborted + 1
      \/ Last.pc = "report" /\ Aborted' = Aborted
  BY <1>4, <1>8 DEF ViewOf
<1> QED
  BY <1>1, <1>2, <1>4, <1>9, SeenBailout DEF Answer, Warned

\* Every step is one of ZfsExt, or none to it.
LEMMA SeenStep == Nest /\ Nest' /\ Bounds /\ [Next]_vars => [E!Next]_(E!vars)
<1> SUFFICES ASSUME Nest, Nest', Bounds, [Next]_vars PROVE [E!Next]_(E!vars)
  OBVIOUS
<1>1. CASE UNCHANGED <<calls, outer, desc, walks, dpc, dresult, dwarned, dbailouts,
                       ppc, presult, pwarned, pbailouts>>
  <2>1. View' = View
    BY <1>1 DEF View, Abstract, Pc
  <2> QED
    BY <1>1, <2>1, SeenStutter DEF Answer, Warned, Aborted
<1>2. ASSUME NEW n \in Names, Create(n) \/ Destroy(n) PROVE [E!Next]_(E!vars)
  <2>1. UNCHANGED <<calls, outer, desc, walks, dpc, dresult, dwarned, dbailouts>>
    BY <1>2 DEF Create, Destroy, handleVars, D!Create, D!Destroy, D!callVars
  <2>2. UNCHANGED <<ppc, presult, pwarned, pbailouts>>
    BY <1>2 DEF Create, Destroy, poolVars, P!Import, P!Export, P!callVars
  <2> QED
    BY <1>1, <2>1, <2>2
<1>3. CASE ZfsListBegins
  BY <1>3, ZfsListBeginsSeen DEF E!Next, E!PhpFunctions
<1>4. CASE ZpoolListBegins
  BY <1>4, ZpoolListBeginsSeen DEF E!Next, E!PhpFunctions
<1>5. CASE Abandon
  BY <1>5, AbandonSeen DEF E!Next
<1>6. CASE UNCHANGED vars
  BY <1>1, <1>6 DEF vars, handleVars, datasetVars, poolVars
<1> QED
  BY <1>2, <1>3, <1>4, <1>5, <1>6, ZfsListRunsSeen, ZpoolListRunsSeen DEF Next

\* The two walks in full do to the handle, to each other and to the script only
\* what ZfsExt has calls do on a started module: they begin, fail, describe their
\* error and end as there, above all with the description of their own failure.
THEOREM ZfsExtKept == Spec => KeepsZfsExt
<1>1. Init => Bounds
  <2>1. MaxBailouts \in Nat
    BY HandleAssumption DEF D!TreeAssumption
  <2> QED
    BY <2>1 DEF Init, D!Init, P!Init, Bounds
<1>2. Spec => []Bounds
  BY <1>1, BoundsStep, PTL DEF Spec
<1> QED
  BY <1>2, NestInv, SeenStep, PTL DEF Spec, KeepsZfsExt
-----------------------------------------------------------------------------
(***************************************************************************)
(* What is proved of each walk holds of it here.                           *)
(***************************************************************************)

DW == INSTANCE DatasetWalkProofs WITH
        Depth <- Level,
        pools <- IF stack = <<>> THEN {} ELSE list,
        pc <- dpc, rows <- drows, open <- dopen, result <- dresult, warned <- dwarned,
        bailouts <- dbailouts, leaked <- dleaked, passed <- dpassed, steady <- dsteady

PW == INSTANCE PoolWalkProofs WITH
        Pos <- [p \in Pools |-> Pos[p]], live <- live \cap Pools,
        pc <- ppc, rows <- prows, open <- popen, result <- presult, warned <- pwarned,
        bailouts <- pbailouts, leaked <- pleaked, passed <- ppassed, steady <- psteady

\* The tree is one for DatasetWalk, and the pools for PoolWalk.
LEMMA DatasetAssumptions == DW!TreeAssumption
  BY HandleAssumption DEF D!TreeAssumption, DW!TreeAssumption, D!Kinds, DW!Kinds

LEMMA PoolAssumptions == PW!PoolAssumption
<1>1. D!TreeAssumption
  BY HandleAssumption
<1>2. [p \in Pools |-> Pos[p]] \in [Pools -> Nat \ {0}]
  BY <1>1 DEF D!TreeAssumption, Pools
<1>3. \A p, q \in Pools : [r \in Pools |-> Pos[r]][p] = [r \in Pools |-> Pos[r]][q] => p = q
  BY <1>1 DEF D!TreeAssumption, Pools
<1> QED
  BY <1>1, <1>2, <1>3 DEF D!TreeAssumption, PW!PoolAssumption

\* zfs_list() is DatasetWalk as its theorems are about it.
LEMMA DatasetWalkRuns == Spec => DW!Spec
<1>1. Init => DW!Init
  BY DEF Init, D!Init, DW!Init, D!Rooted, DW!Rooted
<1>2. [D!Next]_(D!vars) => [DW!Next]_(DW!vars)
  BY DEF D!Next, DW!Next, D!World, DW!World, D!Create, DW!Create, D!Destroy, DW!Destroy, D!Begin,
     DW!Begin, D!CallStep, DW!CallStep, D!OpenNext, DW!OpenNext, D!SkipNext, DW!SkipNext,
     D!AddRow, DW!AddRow, D!ChildrenDone, DW!ChildrenDone, D!ChildrenFail, DW!ChildrenFail,
     D!Bailout, DW!Bailout, D!RootDone, DW!RootDone, D!RootFail, DW!RootFail, D!Warn, DW!Warn,
     D!ReturnFalse, DW!ReturnFalse, D!AbandonInHandler, DW!AbandonInHandler, D!InLibrary,
     DW!InLibrary, D!AtRoot, DW!AtRoot, D!CloseTop, DW!CloseTop, D!IsNext, DW!IsNext, D!Ahead,
     DW!Ahead, D!Offered, DW!Offered, D!AdvanceTo, DW!AdvanceTo, D!Top, DW!Top, D!worldVars,
     DW!worldVars, D!callVars, DW!callVars, D!vars, DW!vars
<1> QED
  BY <1>1, <1>2, NestInv, DatasetWalkStep, PTL DEF Spec, DW!Spec

\* And zpool_list() is PoolWalk.
LEMMA PoolWalkRuns == Spec => PW!Spec
<1>1. Init => PW!Init
  BY DEF Init, P!Init, PW!Init
<1>2. [P!Next]_(P!vars) => [PW!Next]_(PW!vars)
  BY DEF P!Next, PW!Next, P!World, PW!World, P!Import, PW!Import, P!Export, PW!Export,
     P!LoadForZfsList, PW!LoadForZfsList, P!Enter, PW!Enter, P!Begin, PW!Begin, P!BeginFails,
     PW!BeginFails, P!CallStep, PW!CallStep, P!OpenNext, PW!OpenNext, P!SkipNext, PW!SkipNext,
     P!InCallback, PW!InCallback, P!AddRow, PW!AddRow, P!WalkFails, PW!WalkFails, P!Done,
     PW!Done, P!Bailout, PW!Bailout, P!Warn, PW!Warn, P!ReturnFalse, PW!ReturnFalse,
     P!AbandonInHandler, PW!AbandonInHandler, P!IsNext, PW!IsNext, P!Ahead, PW!Ahead, P!callVars,
     PW!callVars, P!vars, PW!vars
<1> QED
  BY <1>1, <1>2, NestInv, PoolWalkStep, PTL DEF Spec, PW!Spec

\* Every variable of both walks, of the handle they share and of the calls keeps
\* its type: a call that runs inside the other's handler disturbs none of it.
THEOREM TypeCorrect == Spec => []TypeOK
<1>1. DW!Spec => []DW!TypeOK
  BY DatasetAssumptions, DW!TypeCorrect
<1>2. PW!Spec => []PW!TypeOK
  BY PoolAssumptions, PW!TypeCorrect
<1>3. DW!TypeOK => D!TypeOK
  BY DEF D!TypeOK, DW!TypeOK, D!Frames, D!Nodes, DW!Frames, DW!Nodes
<1>4. PW!TypeOK => P!TypeOK
  BY DEF P!TypeOK, PW!TypeOK
<1>5. Nest /\ D!TypeOK /\ P!TypeOK => TypeOK
  BY DEF Nest, CallRecord, TypeOK
<1> QED
  BY <1>1, <1>2, <1>3, <1>4, <1>5, NestInv, DatasetWalkRuns, PoolWalkRuns, PTL

\* What DatasetWalk's invariants say of the handles and of the array.
DatasetResults ==
  /\ D!HandlesAccounted /\ D!RecursionBounded
  /\ D!NoDuplicates /\ D!DepthFirst
  /\ D!ListedExisted /\ D!Complete

\* All of it is true of zfs_list() although it shares its list of pools with
\* zpool_list(), which may have been in progress when it began.
THEOREM DatasetResultsHold == Spec => []DatasetResults
<1>1. DW!Spec => [](/\ DW!HandlesAccounted /\ DW!RecursionBounded
                    /\ DW!NoDuplicates /\ DW!DepthFirst
                    /\ DW!ListedExisted /\ DW!Complete)
  BY DatasetAssumptions, DW!HandlesClosed, DW!RecursionIsBounded, DW!ListedOnce,
     DW!ListedDepthFirst, DW!RowsExisted, DW!NothingMissed, PTL
<1>2. D!Listed = DW!Listed
  BY DEF D!Listed, DW!Listed, D!Range, DW!Range
<1>3. DW!HandlesAccounted => D!HandlesAccounted
  BY DEF D!HandlesAccounted, DW!HandlesAccounted, D!OnStack, DW!OnStack
<1>4. DW!RecursionBounded => D!RecursionBounded
  BY DEF D!RecursionBounded, DW!RecursionBounded
<1>5. DW!NoDuplicates /\ DW!DepthFirst => D!NoDuplicates /\ D!DepthFirst
  BY DEF D!NoDuplicates, DW!NoDuplicates, D!DepthFirst, DW!DepthFirst
<1>6. DW!ListedExisted /\ DW!Complete => D!ListedExisted /\ D!Complete
  BY <1>2 DEF D!ListedExisted, DW!ListedExisted, D!Complete, DW!Complete
<1> QED
  BY <1>1, <1>3, <1>4, <1>5, <1>6, DatasetWalkRuns, PTL DEF DatasetResults

\* What PoolWalk's invariants say of the handles, the count and the array.
PoolResults == P!HandlesAccounted /\ P!InOrder /\ P!Complete

\* All of it is true of zpool_list() although zfs_list() loads the list of pools.
THEOREM PoolResultsHold == Spec => []PoolResults
<1>1. PW!Spec => [](PW!HandlesAccounted /\ PW!InOrder /\ PW!Complete)
  BY PoolAssumptions, PW!HandlesClosed, PW!ListedInOrder, PW!NothingMissed, PTL
<1>2. P!Listed = PW!Listed
  BY DEF P!Listed, PW!Listed, P!Range, PW!Range
<1>3. PW!HandlesAccounted => P!HandlesAccounted
  BY DEF P!HandlesAccounted, PW!HandlesAccounted, P!InCallback, PW!InCallback, P!Walking, PW!Walking
<1>4. PW!InOrder => P!InOrder
  BY DEF P!InOrder, PW!InOrder
<1>5. PW!Complete => P!Complete
  BY <1>2 DEF P!Complete, PW!Complete
<1> QED
  BY <1>1, <1>3, <1>4, <1>5, PoolWalkRuns, PTL DEF PoolResults

\* A function that is not the innermost call is idle or in its warning.
LEMMA OthersWait ==
  ASSUME Nest, NEW fn \in Functions, ~ Runs(fn)
  PROVE  Pc(fn) \in {"idle", "refused"}
<1>1. /\ Len(calls) \in Nat /\ Len(calls) <= 2
      /\ calls = <<>> <=> Len(calls) = 0
  BY Innermost DEF Nest, OnlyInnermostRuns
<1>2. SUFFICES ASSUME NEW i \in 1 .. Len(calls), calls[i].fn = fn
               PROVE  Pc(fn) = "refused"
  BY DEF Nest, OnlyInnermostRuns
<1>3. i # Len(calls)
  BY <1>1, <1>2 DEF Runs, Inner
<1>4. ASSUME NEW k \in Nat, k <= 2, NEW j \in 1 .. k, j # k PROVE j = 1 /\ k = 2
  BY <1>4
<1>5. i = 1 /\ Len(calls) = 2
  BY <1>1, <1>3, <1>4
<1> QED
  BY <1>2, <1>5 DEF Nest, OnlyInnermostRuns

\* No call holds an open handle or a walk of the list while another runs inside
\* it, in its error handler; and when no call is in progress nothing is held but
\* what aborted calls left.
THEOREM NothingHeldOutside == Spec => []HeldOnlyByInnermost
<1>1. ASSUME Nest, D!TypeOK, DatasetResults, ~ Runs("zfs_list") PROVE dopen = dleaked
  <2>1. stack = <<>>
    BY <1>1, OthersWait DEF Nest, StackWalks, Functions, Pc
  <2>2. \A n \in Names : ~ D!OnStack(n)
    BY <2>1, EmptySeq DEF D!OnStack
  <2>3. \A n \in Names : dopen[n] = dleaked[n]
    <3> TAKE n \in Names
    <3>1. dopen[n] = dleaked[n] + (IF D!OnStack(n) THEN 1 ELSE 0)
      BY <1>1 DEF DatasetResults, D!HandlesAccounted
    <3>2. dleaked[n] \in Nat
      BY <1>1 DEF D!TypeOK
    <3> QED
      BY <2>2, <3>1, <3>2
  <2> QED
    BY <1>1, <2>3 DEF D!TypeOK
<1>2. ASSUME Nest, P!TypeOK, PoolResults, ~ Runs("zpool_list")
      PROVE  popen = pleaked /\ walks = pbailouts
  <2>1. ppc \in {"idle", "refused"}
    BY <1>2, OthersWait DEF Functions, Pc
  <2>2. (\A p \in Pools : popen[p] = pleaked[p] + 0) /\ walks = pbailouts + 0
    BY <1>2, <2>1 DEF PoolResults, P!HandlesAccounted, P!InCallback, P!Walking
  <2>3. pbailouts \in Nat
    BY <1>2, PoolAssumptions DEF P!TypeOK, PW!PoolAssumption
  <2> QED
    BY <1>2, <2>2, <2>3 DEF P!TypeOK
<1>3. Nest /\ TypeOK /\ DatasetResults /\ PoolResults => HeldOnlyByInnermost
  BY <1>1, <1>2 DEF TypeOK, HeldOnlyByInnermost
<1> QED
  BY <1>3, NestInv, TypeCorrect, DatasetResultsHold, PoolResultsHold, PTL

\* The steps left to a call are counted alike.
LEMMA SameCount ==
  /\ DW!IsFiniteSet(Names) <=> IsFiniteSet(Names)
  /\ PW!IsFiniteSet(Pools) <=> IsFiniteSet(Pools)
  /\ DW!StepsLeft = D!StepsLeft
  /\ PW!StepsLeft = P!StepsLeft
<1>1. DW!IsFiniteSet(Names) <=> IsFiniteSet(Names)
  BY DEF DW!IsFiniteSet, IsFiniteSet
<1>2. PW!IsFiniteSet(Pools) <=> IsFiniteSet(Pools)
  BY DEF PW!IsFiniteSet, IsFiniteSet
<1>3. DW!Unvisited = D!Unvisited
  BY DEF D!Unvisited, DW!Unvisited, D!Under, DW!Under
<1>4. DW!Cardinality(D!Unvisited) = D!Cardinality(D!Unvisited)
  BY DEF D!Cardinality, DW!Cardinality
<1>5. DW!StepsLeft = D!StepsLeft
  BY <1>3, <1>4 DEF D!StepsLeft, DW!StepsLeft
<1>6. PW!Ahead = P!Ahead
  BY DEF P!Ahead, PW!Ahead
<1>7. PW!Cardinality(P!Ahead) = P!Cardinality(P!Ahead)
  BY DEF P!Cardinality, PW!Cardinality
<1>8. PW!StepsLeft = P!StepsLeft
  BY <1>6, <1>7 DEF P!StepsLeft, PW!StepsLeft
<1> QED
  BY <1>1, <1>2, <1>5, <1>8

LEMMA SameCountNext ==
  (DW!StepsLeft = D!StepsLeft)' /\ (PW!StepsLeft = P!StepsLeft)'
<1>1. (DW!StepsLeft = D!StepsLeft) /\ (PW!StepsLeft = P!StepsLeft)
  BY SameCount
<1> QED
  BY <1>1, PTL

\* Each call has a fixed number of steps of its own left, which no step of the
\* other function's calls, inside it or around it, puts up.
THEOREM CallsAreBounded ==
  ASSUME IsFiniteSet(Names)
  PROVE  Spec => D!EndDrawsNear /\ P!EndDrawsNear
<1>1. IsFiniteSet(Pools)
  <2>1. Pools \in SUBSET Names
    BY DEF Pools
  <2> QED
    BY <2>1, FS_Subset
<1>2. DW!Spec => DW!EndDrawsNear
  BY DatasetAssumptions, SameCount, DW!CallIsBounded
<1>3. PW!Spec => PW!EndDrawsNear
  BY <1>1, PoolAssumptions, SameCount, PW!CallIsBounded
<1>4. DW!EndDrawsNear => D!EndDrawsNear
  <2>1. [dpc # "idle" =>
           DW!StepsLeft' < DW!StepsLeft
             \/ (DW!StepsLeft' = DW!StepsLeft /\ UNCHANGED <<dpc, stack>>)]_(DW!vars)
        => [dpc # "idle" =>
              D!StepsLeft' < D!StepsLeft
                \/ (D!StepsLeft' = D!StepsLeft /\ UNCHANGED <<dpc, stack>>)]_(D!vars)
    BY SameCount, SameCountNext DEF D!vars, DW!vars, D!worldVars, DW!worldVars, D!callVars, DW!callVars
  <2> QED
    BY <2>1, PTL DEF D!EndDrawsNear, DW!EndDrawsNear
<1>5. PW!EndDrawsNear => P!EndDrawsNear
  <2>1. [ppc # "idle" =>
           PW!StepsLeft' < PW!StepsLeft
             \/ (PW!StepsLeft' = PW!StepsLeft /\ UNCHANGED <<ppc, cur>>)]_(PW!vars)
        => [ppc # "idle" =>
              P!StepsLeft' < P!StepsLeft
                \/ (P!StepsLeft' = P!StepsLeft /\ UNCHANGED <<ppc, cur>>)]_(P!vars)
    BY SameCount, SameCountNext DEF P!vars, PW!vars, P!callVars, PW!callVars
  <2> QED
    BY <2>1, PTL DEF P!EndDrawsNear, PW!EndDrawsNear
<1> QED
  BY <1>2, <1>3, <1>4, <1>5, DatasetWalkRuns, PoolWalkRuns, PTL
-----------------------------------------------------------------------------
(***************************************************************************)
(* What is proved of ZfsExt on one thread holds of the two walks in full.  *)
(***************************************************************************)

EW == INSTANCE ZfsExtProofs WITH
        Threads <- {"script"}, MaxDepth <- 2, MaxBailouts <- 2 * MaxBailouts,
        g_zfs <- "open", loaded <- TRUE, handles <- 1,
        calls <- [t \in {"script"} |-> [i \in 1 .. Len(calls) |-> Abstract(calls[i])]],
        answer <- [t \in {"script"} |-> IF outer = "zfs_list" THEN dresult ELSE presult],
        warned <- [t \in {"script"} |-> IF outer = "zfs_list" THEN dwarned ELSE pwarned],
        bailouts <- dbailouts + pbailouts

LEMMA ExtAssumptions == EW!BoundAssumption /\ EW!OneThread
<1>1. MaxBailouts \in Nat
  BY HandleAssumption DEF D!TreeAssumption
<1>2. 2 * MaxBailouts \in Nat /\ 2 \in Nat \ {0}
  BY <1>1
<1>3. None \notin EW!Errors
  BY HandleAssumption DEF Errors, EW!Errors
<1> QED
  BY <1>2, <1>3 DEF EW!BoundAssumption, EW!OneThread

\* The state in which the script makes its first call is one of ZfsExt's, with
\* the module started.
LEMMA ExtInit == Init => EW!Inv /\ EW!Solo
<1> SUFFICES ASSUME Init PROVE EW!Inv /\ EW!Solo
  OBVIOUS
<1>1. /\ calls = <<>> /\ Len(calls) = 0 /\ desc = None
      /\ outer = "zfs_list" /\ dresult = "none" /\ dwarned = FALSE
  BY EmptySeq DEF Init, D!Init
<1>2. [i \in 1 .. Len(calls) |-> Abstract(calls[i])] = <<>>
  BY <1>1
<1>3. [t \in {"script"} |-> [i \in 1 .. Len(calls) |-> Abstract(calls[i])]]["script"] = <<>>
  BY <1>2
<1>4. EW!Typed
  <2>1. EW!CallsOK
    BY <1>1, <1>2, <1>3, EmptySeq DEF EW!CallsOK
  <2>2. /\ desc \in EW!Errors \cup {None}
        /\ (IF outer = "zfs_list" THEN dresult ELSE presult) \in {"none", "array", "false"}
        /\ (IF outer = "zfs_list" THEN dwarned ELSE pwarned) \in BOOLEAN
    BY <1>1
  <2> QED
    BY <2>1, <2>2 DEF EW!Typed
<1>5. EW!OfThread("script") /\ EW!SoloOf("script")
  BY <1>1, <1>3 DEF EW!OfThread, EW!SoloOf, EW!InTop
<1>6. EW!IInv
  BY <1>5, ExtAssumptions, EW!IInvOfThreads
<1> QED
  BY <1>4, <1>5, <1>6 DEF EW!Inv, EW!Solo

LEMMA ExtNext == [E!Next]_(E!vars) => [EW!Next]_(EW!vars)
  BY DEF E!Next, EW!Next, E!Module, EW!Module, E!ModuleStart, EW!ModuleStart, E!ModuleStartFails,
     EW!ModuleStartFails, E!ModuleShutdown, EW!ModuleShutdown, E!Misuse, EW!Misuse, E!Begin, EW!Begin,
     E!BeginFails, EW!BeginFails, E!ChildFails, EW!ChildFails, E!WalkFails, EW!WalkFails, E!WalkDone,
     EW!WalkDone, E!Describe, EW!Describe, E!ReturnFalse, EW!ReturnFalse, E!Bailout, EW!Bailout,
     E!MayCall, EW!MayCall, E!Outermost, EW!Outermost, E!Loads, EW!Loads, E!Replaced, EW!Replaced,
     E!NewCall, EW!NewCall, E!InTop, EW!InTop, E!Top, EW!Top, E!Depth, EW!Depth, E!SetTop, EW!SetTop,
     E!Return, EW!Return, E!Uncounted, EW!Uncounted, E!Error, EW!Error, E!PhpFunctions,
     EW!PhpFunctions, E!handleVars, EW!handleVars, E!vars, EW!vars

LEMMA ExtStep == EW!Inv /\ EW!Solo /\ [E!Next]_(E!vars) => EW!Inv' /\ EW!Solo'
<1>1. EW!Inv /\ [EW!Next]_(EW!vars) => EW!Inv'
  BY ExtAssumptions, EW!InvStep
<1>2. EW!Inv /\ EW!Solo /\ [EW!Next]_(EW!vars) => EW!Solo'
  BY ExtAssumptions, EW!SoloStep
<1> QED
  BY <1>1, <1>2, ExtNext

LEMMA ExtInv == Spec => [](EW!Inv /\ EW!Solo)
  BY ExtInit, ExtStep, ZfsExtKept, PTL DEF Spec, KeepsZfsExt

\* A warning has the details of the failed walk of its own call, whatever other
\* failures the walks describe in between.
THEOREM DetailsAreOwn == Spec => []WarningsAreOwn
<1>1. EW!Solo => WarningsAreOwn
  BY DEF EW!Solo, EW!SoloOf, WarningsAreOwn, E!OwnDetails, E!Depth, E!Error, EW!Error
<1> QED
  BY <1>1, ExtInv, PTL

\* The call the script made answers as ListCall has it.
THEOREM OuterKeepsContract == Spec => OuterContract
<1>1. Init => \A t \in {"script"} : E!Outer(t)!Init
  <2> SUFFICES ASSUME Init, NEW t \in {"script"} PROVE E!Outer(t)!Init
    OBVIOUS
  <2>1. calls = <<>> /\ Len(calls) = 0 /\ outer = "zfs_list" /\ dresult = "none" /\ dwarned = FALSE
    BY EmptySeq DEF Init, D!Init
  <2>2. [i \in 1 .. Len(calls) |-> Abstract(calls[i])] = <<>>
    BY <2>1
  <2> QED
    BY <2>1, <2>2 DEF E!Outer!Init
<1>2. EW!Inv /\ [EW!Next]_(EW!vars) =>
        \A t \in {"script"} : [EW!Outer(t)!Next]_(EW!Outer(t)!callVars)
  BY ExtAssumptions, EW!ContractStep
<1>3. ASSUME NEW t \in {"script"}, [EW!Outer(t)!Next]_(EW!Outer(t)!callVars)
      PROVE  [E!Outer(t)!Next]_(E!Outer(t)!callVars)
  BY <1>3 DEF E!Outer!Next, EW!Outer!Next, E!Outer!callVars, EW!Outer!callVars,
     E!Outer!Misuse, EW!Outer!Misuse, E!Outer!Begin, EW!Outer!Begin, E!Outer!Warn, EW!Outer!Warn,
     E!Outer!ReturnArray, EW!Outer!ReturnArray, E!Outer!ReturnFalse, EW!Outer!ReturnFalse,
     E!Outer!Abandon, EW!Outer!Abandon
<1>4. EW!Inv /\ [E!Next]_(E!vars) =>
        [\A t \in {"script"} : [E!Outer(t)!Next]_(E!Outer(t)!callVars)]_(E!vars)
  BY <1>2, <1>3, ExtNext
<1> QED
  BY <1>1, <1>4, ExtInv, ZfsExtKept, PTL DEF Spec, KeepsZfsExt, OuterContract, E!Contract
=============================================================================
