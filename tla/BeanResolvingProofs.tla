------------------------ MODULE BeanResolvingProofs ------------------------
(***************************************************************************)
(* Proofs about BeanResolving for any set of definitions: however their    *)
(* conditions refer to each other, the depth of the recursion is bounded,  *)
(* no decision outlives its evidence, and of the defaults that yield to    *)
(* each other exactly one survives; and when they do not refer to each     *)
(* other in a cycle, the outcome is the only set of definitions with which *)
(* all conditions agree.                                                   *)
(***************************************************************************)
EXTENDS BeanResolving, FiniteSetTheorems, WellFoundedInduction, TLAPS

-----------------------------------------------------------------------------
(* Sequences. *)

\* A set of numbers that has each number whose smaller ones it has, has all.
LEMMA AllNumbers ==
    ASSUME NEW P \in SUBSET Nat,
           ASSUME NEW n \in Nat, \A m \in Nat : m < n => m \in P PROVE n \in P
    PROVE  P = Nat
<1> SUFFICES ASSUME Nat \ P # {} PROVE FALSE
  OBVIOUS
<1>1. PICK n \in Nat \ P : \A m \in Nat \ P : ~ <<m, n>> \in OpToRel(<, Nat)
  BY NatLessThanWellFounded, WFMin
<1>2. \A m \in Nat : m < n => m \in P
  BY <1>1 DEF OpToRel
<1> QED
  BY <1>1, <1>2

\* A sequence of sequences, one after the other.
LEMMA FlattenType ==
    ASSUME NEW S, NEW seqs \in Seq(Seq(S))
    PROVE  FlattenSeq(seqs) \in Seq(S)
<1>1. CASE Len(seqs) = 0
  <2>1. FlattenSeq(seqs) = << >>
    BY <1>1 DEF FlattenSeq
  <2> QED
    BY <2>1
<1>2. CASE Len(seqs) # 0
  <2> DEFINE N == Len(seqs)
             Turns(f, n) == \A i \in 1..n : f[i] = IF i = 1 THEN seqs[i] ELSE f[i - 1] \o seqs[i]
             Built == {n \in Nat : n \in 1..N => \E f \in [1..n -> Seq(S)] : Turns(f, n)}
             flatten == CHOOSE f : f = [i \in 1..N |-> IF i = 1 THEN seqs[i]
                                                                 ELSE f[i - 1] \o seqs[i]]
  <2>0. N \in Nat \ {0} /\ \A i \in 1..N : seqs[i] \in Seq(S)
    BY <1>2
  <2> HIDE DEF N
  <2>1. ASSUME NEW n \in Nat, \A m \in Nat : m < n => m \in Built
        PROVE  n \in Built
    <3> SUFFICES ASSUME n \in 1..N PROVE \E f \in [1..n -> Seq(S)] : Turns(f, n)
      OBVIOUS
    <3>1. CASE n = 1
      <4>1. [i \in 1..1 |-> seqs[1]] \in [1..1 -> Seq(S)]
        BY <2>0
      <4>2. Turns([i \in 1..1 |-> seqs[1]], 1)
        BY <2>0
      <4> QED
        BY <3>1, <4>1, <4>2
    <3>2. CASE n # 1
      <4>1. n - 1 \in Nat /\ n - 1 < n /\ n - 1 \in 1..N
        BY <2>0, <3>2
      <4>2. PICK f \in [1..(n - 1) -> Seq(S)] : Turns(f, n - 1)
        BY <2>1, <4>1
      <4> DEFINE g == [i \in 1..n |-> IF i = n THEN f[n - 1] \o seqs[n] ELSE f[i]]
      <4>3. n - 1 \in 1..(n - 1) /\ f[n - 1] \in Seq(S) /\ seqs[n] \in Seq(S)
        BY <2>0, <4>1, <4>2
      <4>4. f[n - 1] \o seqs[n] \in Seq(S)
        BY <4>3
      <4>5. ASSUME NEW i \in 1..n PROVE g[i] \in Seq(S)
        BY <4>2, <4>4, <4>5
      <4>6. g \in [1..n -> Seq(S)]
        BY <4>5
      <4>7. ASSUME NEW i \in 1..n
            PROVE  g[i] = IF i = 1 THEN seqs[i] ELSE g[i - 1] \o seqs[i]
        <5>1. CASE i = n
          <6>1. i - 1 \in 1..n /\ i - 1 # n /\ i # 1
            BY <3>2, <5>1
          <6> QED
            BY <5>1, <6>1
        <5>2. CASE i # n
          <6>1. i \in 1..(n - 1) /\ (i # 1 => i - 1 \in 1..n /\ i - 1 # n)
            BY <5>2
          <6> QED
            BY <4>2, <5>2, <6>1
        <5> QED
          BY <5>1, <5>2
      <4>8. Turns(g, n)
        BY <4>7
      <4> HIDE DEF g, Turns
      <4> QED
        BY <4>6, <4>8
    <3> QED
      BY <3>1, <3>2
  <2>2. Built = Nat
    <3>1. Built \in SUBSET Nat
      OBVIOUS
    <3> HIDE DEF Built
    <3> QED
      BY <2>1, <3>1, AllNumbers
  <2>3. PICK f \in [1..N -> Seq(S)] : Turns(f, N)
    <3> HIDE DEF Turns
    <3>1. N \in Built /\ N \in 1..N
      <4> HIDE DEF Built
      <4> QED
        BY <2>0, <2>2
    <3> QED
      BY <3>1
  <2>4. f = [i \in 1..N |-> IF i = 1 THEN seqs[i] ELSE f[i - 1] \o seqs[i]]
    BY <2>3
  <2>5. flatten = [i \in 1..N |-> IF i = 1 THEN seqs[i] ELSE flatten[i - 1] \o seqs[i]]
    BY <2>4
  <2>6. FlattenSeq(seqs) = flatten[N]
    BY <1>2 DEF FlattenSeq, N
  <2> HIDE DEF flatten, Built, Turns
  <2> DEFINE Typed == {n \in Nat : n \in 1..N => flatten[n] \in Seq(S)}
  <2>7. ASSUME NEW n \in Nat, \A m \in Nat : m < n => m \in Typed
        PROVE  n \in Typed
    <3> SUFFICES ASSUME n \in 1..N PROVE flatten[n] \in Seq(S)
      OBVIOUS
    <3>1. flatten[n] = IF n = 1 THEN seqs[n] ELSE flatten[n - 1] \o seqs[n]
      BY <2>5
    <3>2. n # 1 => n - 1 \in Nat /\ n - 1 < n /\ n - 1 \in 1..N
      BY <2>0
    <3>3. n # 1 => flatten[n - 1] \in Seq(S)
      BY <2>7, <3>2
    <3> QED
      BY <2>0, <3>1, <3>3
  <2>8. Typed = Nat
    <3>1. Typed \in SUBSET Nat
      OBVIOUS
    <3> HIDE DEF Typed
    <3> QED
      BY <2>7, <3>1, AllNumbers
  <2>9. N \in Typed
    <3> HIDE DEF Typed
    <3> QED
      BY <2>0, <2>8
  <2> QED
    BY <2>0, <2>6, <2>9
<1> QED
  BY <1>1, <1>2
-----------------------------------------------------------------------------
(* The stack, read from the bottom: a frame keeps its level for life. *)

Frame == BeanFrame \cup CondFrame

BeanFrameOf(b, i) == [kind |-> "bean", bean |-> b, at |-> i]
CondFrameOf(c, i, F) == [kind |-> "cond", cond |-> c, at |-> i, found |-> F]

Level(s, n) == s[Len(s) + 1 - n]

\* What is left of s up to level n is what is left of t.
SameUpTo(s, t, n) == \A m \in 1..n : Level(t, m) = Level(s, m)

\* The innermost frame is left, replaced by f, or joined by f.
Popped(s, t)    == Len(t) = Len(s) - 1 /\ SameUpTo(s, t, Len(s) - 1)
Swapped(s, t, f) ==
    /\ Len(t) = Len(s) /\ SameUpTo(s, t, Len(s) - 1)
    /\ Level(t, Len(s)) = f
Pushed(s, t, f) ==
    /\ Len(t) = Len(s) + 1 /\ SameUpTo(s, t, Len(s))
    /\ Level(t, Len(s) + 1) = f
\* The innermost frame is replaced by f, and g is called.
Called(s, t, f, g) ==
    /\ Len(t) = Len(s) + 1 /\ SameUpTo(s, t, Len(s) - 1)
    /\ Level(t, Len(s)) = f /\ Level(t, Len(s) + 1) = g

LEMMA FrameType ==
    ASSUME NEW f \in Frame
    PROVE  /\ f.kind \in {"bean", "cond"} /\ f.at \in Nat \ {0}
           /\ f.kind = "bean" => f.bean \in Bean /\ f = BeanFrameOf(f.bean, f.at)
           /\ f.kind = "cond" => /\ f.cond \in Cond /\ f.found \in SUBSET Bean
                                 /\ f = CondFrameOf(f.cond, f.at, f.found)
BY DEF Frame, BeanFrame, CondFrame, BeanFrameOf, CondFrameOf

LEMMA FrameMade ==
    /\ \A b \in Bean, i \in Nat \ {0} : BeanFrameOf(b, i) \in Frame
    /\ \A c \in Cond, i \in Nat \ {0}, F \in SUBSET Bean : CondFrameOf(c, i, F) \in Frame
BY DEF Frame, BeanFrame, CondFrame, BeanFrameOf, CondFrameOf

\* Calling a function.
LEMMA Push ==
    ASSUME NEW s \in Seq(Frame), NEW f \in Frame
    PROVE  /\ << f >> \o s \in Seq(Frame)
           /\ Pushed(s, << f >> \o s, f)
           /\ << f >> \o s # << >>
<1> DEFINE t == << f >> \o s
<1>1. t \in Seq(Frame) /\ Len(t) = Len(s) + 1 /\ t[1] = f
  OBVIOUS
<1>2. ASSUME NEW m \in 1..Len(s) PROVE Level(t, m) = Level(s, m)
  <2>1. Len(s) \in Nat /\ m \in Nat /\ m >= 1 /\ m <= Len(s)
    OBVIOUS
  <2> DEFINE i == Len(s) + 1 - m
  <2>2. i \in 1..Len(s)
    BY <2>1
  <2>3. t[i + 1] = s[i]
    BY <2>2
  <2>4. Len(t) + 1 - m = i + 1
    BY <1>1, <2>1
  <2> HIDE DEF t
  <2> QED
    BY <2>3, <2>4 DEF Level
<1>3. Level(t, Len(s) + 1) = f
  <2>1. Len(t) + 1 - (Len(s) + 1) = 1
    BY <1>1
  <2> HIDE DEF t
  <2> QED
    BY <1>1, <2>1 DEF Level
<1> QED
  BY <1>1, <1>2, <1>3 DEF Pushed, SameUpTo

\* Returning from one.
LEMMA Pop ==
    ASSUME NEW s \in Seq(Frame), s # << >>
    PROVE  /\ Tail(s) \in Seq(Frame) /\ Len(s) \in Nat \ {0}
           /\ Popped(s, Tail(s))
           /\ Head(s) \in Frame /\ Head(s) = Level(s, Len(s))
<1>1. Tail(s) \in Seq(Frame) /\ Len(s) \in Nat \ {0} /\ Len(Tail(s)) = Len(s) - 1
  OBVIOUS
<1>2. ASSUME NEW m \in 1..(Len(s) - 1) PROVE Level(Tail(s), m) = Level(s, m)
  <2> DEFINE i == Len(s) - m
  <2>1. i \in 1..Len(Tail(s)) /\ Len(Tail(s)) + 1 - m = i /\ Len(s) + 1 - m = i + 1
    BY <1>1
  <2>2. Tail(s)[i] = s[i + 1]
    BY <2>1
  <2> QED
    BY <2>1, <2>2 DEF Level
<1>3. Head(s) \in Frame /\ Head(s) = s[1] /\ Len(s) + 1 - Len(s) = 1
  BY <1>1
<1> QED
  BY <1>1, <1>2, <1>3 DEF Popped, SameUpTo, Level

\* Advancing in one.
LEMMA Swap ==
    ASSUME NEW s \in Seq(Frame), s # << >>, NEW f \in Frame
    PROVE  /\ << f >> \o Tail(s) \in Seq(Frame)
           /\ Swapped(s, << f >> \o Tail(s), f)
<1>1. Tail(s) \in Seq(Frame) /\ Len(s) \in Nat \ {0} /\ Popped(s, Tail(s))
  BY Pop
<1> DEFINE r == Tail(s)
           t == << f >> \o r
<1>2. t \in Seq(Frame) /\ Pushed(r, t, f)
  BY <1>1, Push
<1> HIDE DEF r, t
<1>3. Len(r) = Len(s) - 1 /\ SameUpTo(s, r, Len(s) - 1)
  BY <1>1 DEF r, Popped
<1>4. Len(t) = Len(s) /\ Level(t, Len(s)) = f /\ SameUpTo(r, t, Len(s) - 1)
  BY <1>1, <1>2, <1>3 DEF Pushed
<1> QED
  BY <1>2, <1>3, <1>4 DEF Swapped, SameUpTo, r, t

\* Advancing in one and calling another.
LEMMA SwapAndPush ==
    ASSUME NEW s \in Seq(Frame), s # << >>, NEW f \in Frame, NEW g \in Frame
    PROVE  /\ << g >> \o (<< f >> \o Tail(s)) \in Seq(Frame)
           /\ Called(s, << g >> \o (<< f >> \o Tail(s)), f, g)
<1> DEFINE r == << f >> \o Tail(s)
           t == << g >> \o r
<1>1. r \in Seq(Frame) /\ Swapped(s, r, f)
  BY Swap
<1>2. t \in Seq(Frame) /\ Pushed(r, t, g)
  BY <1>1, Push
<1>3. Len(s) \in Nat \ {0}
  BY Pop
<1> HIDE DEF r, t
<1>4. Len(r) = Len(s) /\ SameUpTo(s, r, Len(s) - 1) /\ Level(r, Len(s)) = f
  BY <1>1 DEF Swapped
<1>5. Len(t) = Len(s) + 1 /\ SameUpTo(r, t, Len(s)) /\ Level(t, Len(s) + 1) = g
  BY <1>2, <1>4 DEF Pushed
<1>6. Level(t, Len(s)) = f /\ SameUpTo(s, t, Len(s) - 1)
  BY <1>3, <1>4, <1>5 DEF SameUpTo
<1> QED
  BY <1>2, <1>5, <1>6 DEF Called, r, t

LEMMA Levels ==
    ASSUME NEW s \in Seq(Frame), NEW n \in 1..Len(s)
    PROVE  Level(s, n) \in Frame
<1>1. Len(s) + 1 - n \in 1..Len(s)
  OBVIOUS
<1> QED
  BY <1>1 DEF Level
-----------------------------------------------------------------------------
(* Types. *)

LEMMA Ops ==
    ASSUME NEW c \in Cond
    PROVE  /\ c.op \in {"const"} \cup LeafOps \cup GroupOps
           /\ c.op = "const" => c.val \in Outcome
           /\ c.op \in LeafOps => c.sel \in SUBSET Bean
           /\ c.op \in GroupOps => c.args \in Seq(Cond)
BY CondAssumption DEF LeafOps, GroupOps

LEMMA Concat ==
    ASSUME NEW S, NEW s \in Seq(S), NEW t \in Seq(S)
    PROVE  s \o t \in Seq(S)
OBVIOUS

LEMMA Element ==
    ASSUME NEW S, NEW s \in Seq(S), NEW i \in DOMAIN s
    PROVE  s[i] \in S
OBVIOUS

LEMMA ConditionsType ==
    ASSUME program \in ProgramType, NEW b \in Bean
    PROVE  Conditions(b) \in Seq(Cond)
<1>1. CASE IsChild(b)
  <2> DEFINE p == CHOOSE p \in Bean : b \in ToSet(program.children[p])
             S == Matching(program.id[p])
  <2>1. S \in SUBSET Bean
    BY DEF Matching
  <2>2. [op |-> "bean", sel |-> S] \in Cond
    BY <2>1, ProgramAssumption
  <2>3. Conditions(b) = << [op |-> "bean", sel |-> S] >>
    BY <1>1 DEF Conditions
  <2> HIDE DEF S
  <2> QED
    BY <2>2, <2>3
<1>2. CASE ~IsChild(b)
  BY <1>2 DEF Conditions, ProgramType
<1> QED
  BY <1>1, <1>2

\* What the program registers does not change, so neither do the conditions.
LEMMA SameProgram ==
    ASSUME program' = program
    PROVE  \A b : Conditions(b)' = Conditions(b)
BY DEF Conditions, IsChild, Matching

LEMMA EvaluateType ==
    ASSUME NEW c \in Cond, NEW rest \in Seq(Frame), Evaluate(c, rest)
    PROVE  stack' \in Seq(Frame) /\ ret' \in Outcome \cup {"none"}
<1>1. CASE c.op = "const"
  BY <1>1, Ops DEF Evaluate
<1>2. CASE c.op # "const"
  <2>1. CondFrameOf(c, 1, {}) \in Frame
    BY FrameMade
  <2>2. stack' = << CondFrameOf(c, 1, {}) >> \o rest /\ ret' = "none"
    BY <1>2 DEF Evaluate, CondFrameOf
  <2> QED
    BY <2>1, <2>2, Push
<1> QED
  BY <1>1, <1>2

LEMMA EnterType ==
    ASSUME TypeOK, NEW b \in Bean, EnterBean(b)
    PROVE  stack' \in Seq(Frame) /\ status' \in [Bean -> Status]
<1>1. stack \in Seq(Frame)
  BY DEF TypeOK, Frame
<1>2. BeanFrameOf(b, 1) \in Frame
  BY FrameMade
<1>3. stack' = << BeanFrameOf(b, 1) >> \o stack
  BY DEF EnterBean, BeanFrameOf
<1>4. stack' \in Seq(Frame)
  BY <1>1, <1>2, <1>3, Push
<1> QED
  BY <1>4 DEF TypeOK, EnterBean, Status

\* A frame that has advanced, by itself or to what it found.
LEMMA Advance ==
    ASSUME NEW f \in Frame
    PROVE  /\ f.kind = "bean" =>
                 [f EXCEPT !.at = @ + 1] = BeanFrameOf(f.bean, f.at + 1)
           /\ f.kind = "cond" =>
                 [f EXCEPT !.at = @ + 1] = CondFrameOf(f.cond, f.at + 1, f.found)
<1>1. CASE f.kind = "bean"
  <2>1. f = [kind |-> "bean", bean |-> f.bean, at |-> f.at]
    BY <1>1, FrameType DEF BeanFrameOf
  <2> QED
    BY <1>1, <2>1 DEF BeanFrameOf
<1>2. CASE f.kind = "cond"
  <2>1. f = [kind |-> "cond", cond |-> f.cond, at |-> f.at, found |-> f.found]
    BY <1>2, FrameType DEF CondFrameOf
  <2> QED
    BY <1>2, <2>1 DEF CondFrameOf
<1> QED
  BY <1>1, <1>2, FrameType

LEMMA AdvanceFound ==
    ASSUME NEW f \in Frame, f.kind = "cond", NEW F
    PROVE  [f EXCEPT !.at = @ + 1, !.found = F] = CondFrameOf(f.cond, f.at + 1, F)
<1> DEFINE g == [f EXCEPT !.at = @ + 1]
<1>1. g = [kind |-> "cond", cond |-> f.cond, at |-> f.at + 1, found |-> f.found]
  BY Advance DEF CondFrameOf
<1>2. [f EXCEPT !.at = @ + 1, !.found = F] = [g EXCEPT !.found = F]
  OBVIOUS
<1> HIDE DEF g
<1>3. [g EXCEPT !.found = F] = [kind |-> "cond", cond |-> f.cond, at |-> f.at + 1, found |-> F]
  BY <1>1
<1> QED
  BY <1>2, <1>3 DEF CondFrameOf

LEMMA TopType ==
    ASSUME TypeOK, stack # << >>
    PROVE  Top \in Frame /\ Tail(stack) \in Seq(Frame)
<1>1. stack \in Seq(Frame)
  BY DEF TypeOK, Frame
<1> QED
  BY <1>1, Pop DEF Top

\* The list of definitions after a step that adds to it.
LEMMA BeansType ==
    ASSUME TypeOK,
           (\E b \in Bean : Provide(b)) \/ Refresh \/ ApplyModule \/ ScanConfigurations
    PROVE  TypeOK'
<1>0. /\ program.global \in Seq(Bean) /\ program.app \in SUBSET Bean
      /\ program.modules \in Seq([when : Outcome, fails : BOOLEAN, beans : Seq(Bean)])
      /\ program.children \in [Bean -> Seq(Bean)]
  BY DEF TypeOK, ProgramType
<1>1. CASE \E b \in Bean : Provide(b)
  BY <1>1 DEF TypeOK, Provide
<1>2. CASE Refresh
  <2>1. beans' \in Seq(Bean)
    BY <1>0, <1>2, Concat DEF TypeOK, Refresh
  <2> QED
    BY <1>2, <2>1 DEF TypeOK, Refresh, Phase
<1>3. CASE ApplyModule
  <2>1. PICK m \in [when : Outcome, fails : BOOLEAN, beans : Seq(Bean)] : m = program.modules[pos]
    <3>1. pos \in DOMAIN program.modules
      BY <1>3 DEF ApplyModule
    <3>2. program.modules[pos] \in [when : Outcome, fails : BOOLEAN, beans : Seq(Bean)]
      BY <1>0, <3>1, Element
    <3> QED
      BY <3>2
  <2>2. m.beans \in Seq(Bean) /\ Len(m.beans) \in Nat
    BY <2>1
  <2>3. \A k \in 0..Len(m.beans) : SubSeq(m.beans, 1, k) \in Seq(Bean)
    <3>1. ASSUME NEW t \in Seq(Bean), NEW k \in 0..Len(t) PROVE SubSeq(t, 1, k) \in Seq(Bean)
      OBVIOUS
    <3> QED
      BY <2>2, <3>1
  <2>4. beans' \in Seq(Bean)
    <3>0. beans \in Seq(Bean)
      BY DEF TypeOK
    <3>1. \/ beans' = beans \o m.beans \/ beans' = beans
          \/ \E k \in 0..Len(m.beans) : beans' = beans \o SubSeq(m.beans, 1, k)
      BY <1>3, <2>1 DEF ApplyModule
    <3> QED
      BY <2>2, <2>3, <3>0, <3>1, Concat, Zenon
  <2> QED
    BY <1>3, <2>4 DEF TypeOK, ApplyModule, Phase
<1>4. CASE ScanConfigurations
  <2> DEFINE methods == [i \in DOMAIN beans |-> program.children[beans[i]]]
  <2>1. methods \in Seq(Seq(Bean))
    <3>1. beans \in Seq(Bean) /\ DOMAIN beans = 1..Len(beans) /\ Len(beans) \in Nat
      BY DEF TypeOK
    <3>2. \A i \in 1..Len(beans) : program.children[beans[i]] \in Seq(Bean)
      BY <1>0, <3>1
    <3> QED
      BY <3>1, <3>2
  <2>2. FlattenSeq(methods) \in Seq(Bean)
    BY <2>1, FlattenType
  <2>3. beans' = beans \/ beans' = beans \o FlattenSeq(methods)
    BY <1>4 DEF ScanConfigurations
  <2> HIDE DEF methods
  <2>4. beans' \in Seq(Bean)
    <3>1. beans \in Seq(Bean)
      BY DEF TypeOK
    <3> QED
      BY <2>2, <2>3, <3>1, Concat
  <2> QED
    BY <1>4, <2>4 DEF TypeOK, ScanConfigurations, Phase
<1> QED
  BY <1>1, <1>2, <1>3, <1>4

LEMMA TypeStep ==
    ASSUME TypeOK, [Next]_vars
    PROVE  TypeOK'
<1> DEFINE Rest == /\ program' = program /\ beans' = beans
                   /\ phase' \in Phase /\ pos' \in Nat \ {0}
                   /\ status' \in [Bean -> Status]
                   /\ stack' \in Seq(Frame) /\ ret' \in Outcome \cup {"none"}
<1>0. /\ stack \in Seq(Frame) /\ beans \in Seq(Bean) /\ pos \in Nat \ {0}
      /\ status \in [Bean -> Status] /\ ret \in Outcome \cup {"none"}
      /\ phase \in Phase /\ program \in ProgramType
      /\ \A i \in DOMAIN beans : beans[i] \in Bean
  BY DEF TypeOK, Frame
<1>1. ASSUME Rest PROVE TypeOK'
  BY <1>0, <1>1 DEF TypeOK, Frame
<1>2. CASE (\E b \in Bean : Provide(b)) \/ Refresh \/ ApplyModule \/ ScanConfigurations
  BY <1>2, BeansType
<1>3. ASSUME stack # << >>
      PROVE  /\ Top \in Frame /\ Tail(stack) \in Seq(Frame)
             /\ Top.at \in Nat \ {0} /\ Top.at + 1 \in Nat \ {0}
             /\ Top.kind = "bean" => Top.bean \in Bean
             /\ Top.kind = "cond" => Top.cond \in Cond /\ Top.found \in SUBSET Bean
  <2>1. Top \in Frame /\ Tail(stack) \in Seq(Frame)
    BY <1>3, TopType
  <2> QED
    BY <2>1, FrameType
<1>4. CASE ResolveNext
  <2>1. UNCHANGED <<status, stack>> \/ EnterBean(beans[pos])
    BY <1>4 DEF ResolveNext
  <2>2. beans[pos] \in Bean
    BY <1>0, <1>4 DEF ResolveNext
  <2>3. stack' \in Seq(Frame) /\ status' \in [Bean -> Status]
    BY <1>0, <2>1, <2>2, EnterType
  <2> QED
    BY <1>0, <1>1, <1>4, <2>3 DEF ResolveNext
<1>5. CASE MatchNext
  <2> DEFINE f == [Top EXCEPT !.at = @ + 1]
             c == Conditions(Top.bean)[Top.at]
  <2>1. stack # << >> /\ Top.kind = "bean" /\ Top.at \in DOMAIN Conditions(Top.bean)
    BY <1>5 DEF MatchNext, InBean
  <2>2. c \in Cond
    BY <1>0, <1>3, <2>1, ConditionsType
  <2>3. f \in Frame
    BY <1>3, <2>1, Advance, FrameMade
  <2>4. << f >> \o Tail(stack) \in Seq(Frame)
    BY <1>0, <2>1, <2>3, Swap
  <2>5. Evaluate(c, << f >> \o Tail(stack))
    BY <1>5 DEF MatchNext
  <2> HIDE DEF f, c
  <2>6. stack' \in Seq(Frame) /\ ret' \in Outcome \cup {"none"}
    BY <2>2, <2>4, <2>5, EvaluateType
  <2> QED
    BY <1>0, <1>1, <1>5, <2>6 DEF MatchNext
<1>6. CASE Accept
  <2>1. stack # << >> /\ Top.bean \in Bean
    BY <1>3, <1>6 DEF Accept, InBean
  <2> QED
    BY <1>0, <1>1, <1>3, <1>6, <2>1 DEF Accept, Return, Status
<1>7. CASE Reject
  <2>1. stack # << >> /\ Top.bean \in Bean
    BY <1>3, <1>7 DEF Reject, InBean
  <2> QED
    BY <1>0, <1>1, <1>3, <1>7, <2>1 DEF Reject, Return, Status
<1>8. CASE GroupStep
  <2> DEFINE f == [Top EXCEPT !.at = @ + 1]
             c == Top.cond.args[Top.at]
  <2>1. stack # << >> /\ Top.kind = "cond" /\ Top.cond.op \in GroupOps
    BY <1>8 DEF GroupStep, InCond
  <2>2. f \in Frame
    BY <1>3, <2>1, Advance, FrameMade
  <2>3. << f >> \o Tail(stack) \in Seq(Frame)
    BY <1>0, <2>1, <2>2, Swap
  <2>4. CASE Return(OnStop(Top.cond.op)) \/ Return(OnExhaust(Top.cond.op))
    BY <1>0, <1>1, <1>3, <1>8, <2>1, <2>4
    DEF GroupStep, Return, OnStop, OnExhaust, Outcome
  <2>5. CASE Top.at \in DOMAIN Top.cond.args /\ Evaluate(c, << f >> \o Tail(stack))
    <3>1. c \in Cond
      BY <1>3, <2>1, <2>5, Ops
    <3> HIDE DEF f, c
    <3>2. stack' \in Seq(Frame) /\ ret' \in Outcome \cup {"none"}
      BY <2>3, <2>5, <3>1, EvaluateType
    <3> QED
      BY <1>0, <1>1, <1>8, <3>2 DEF GroupStep
  <2> QED
    BY <1>8, <2>4, <2>5 DEF GroupStep
<1>9. CASE FindStep
  <2> DEFINE b == beans[Top.at]
             F == IF Skipped(b, Top.cond) THEN Top.found ELSE Top.found \cup {b}
             f == CondFrameOf(Top.cond, Top.at + 1, F)
  <2>1. stack # << >> /\ Top.kind = "cond" /\ b \in Bean
    BY <1>0, <1>9 DEF FindStep, InCond
  <2>2. CASE EnterBean(b)
    <3>1. stack' \in Seq(Frame) /\ status' \in [Bean -> Status]
      BY <2>1, <2>2, EnterType
    <3> QED
      BY <1>0, <1>1, <1>9, <3>1 DEF FindStep
  <2>3. CASE stack' = << [Top EXCEPT !.at = @ + 1,
                                     !.found = IF Skipped(b, Top.cond)
                                               THEN @ ELSE @ \cup {b}] >> \o Tail(stack)
             /\ UNCHANGED status
    <3>1. F \in SUBSET Bean
      BY <1>3, <2>1
    <3>2. f \in Frame
      BY <1>3, <2>1, <3>1, FrameMade
    <3>3. stack' = << [Top EXCEPT !.at = @ + 1, !.found = F] >> \o Tail(stack)
      BY <2>3
    <3> HIDE DEF F
    <3>4. stack' = << f >> \o Tail(stack)
      BY <1>3, <2>1, <3>3, AdvanceFound
    <3> HIDE DEF f
    <3>5. stack' \in Seq(Frame)
      BY <1>0, <2>1, <3>2, <3>4, Swap
    <3> QED
      BY <1>0, <1>1, <1>9, <2>3, <3>5 DEF FindStep
  <2> QED
    BY <1>9, <2>2, <2>3 DEF FindStep
<1>10. CASE FindReturn
  BY <1>0, <1>1, <1>3, <1>10 DEF FindReturn, InCond, Return, Outcome
<1>11. CASE Abort
  BY <1>0, <1>1, <1>11 DEF Abort, Phase
<1>12. CASE CheckDuplicateBeans
  BY <1>0, <1>1, <1>12 DEF CheckDuplicateBeans, Phase
<1>13. CASE UNCHANGED vars
  BY <1>0, <1>1, <1>13 DEF vars
<1> QED
  BY <1>2, <1>4, <1>5, <1>6, <1>7, <1>8, <1>9, <1>10, <1>11, <1>12, <1>13
  DEF Next, Step, Terminated

\* Every variable stays within its type: whatever is registered and however
\* conditions nest, the list holds definitions, and the recursion between
\* resolveBean and Find holds frames of these two functions.
THEOREM Typing == Spec => []TypeOK
<1>1. Init => TypeOK
  BY ProgramAssumption DEF Init, TypeOK, Phase, Status
<1>2. TypeOK /\ [Next]_vars => TypeOK'
  BY TypeStep
<1> QED
  BY <1>1, <1>2, PTL DEF Spec
-----------------------------------------------------------------------------
(* The inductive invariant. *)

\* The conditions of every definition, which only the program determines.
Required == [b \in Bean |-> Conditions(b)]

Leaf(f) == f.kind = "cond" /\ f.cond.op \in LeafOps

\* resolveBean runs for definitions of the list that have no decision, and is
\* called by resolveBeans, at the bottom, or by a Find.
BeansUnderWay ==
    \A n \in 1..Len(stack) : Level(stack, n).kind = "bean" =>
        /\ status[Level(stack, n).bean] = "resolving"
        /\ Level(stack, n).bean \in ToSet(beans)
        /\ n > 1 => Leaf(Level(stack, n - 1))
        /\ Level(stack, n).at <= Len(Required[Level(stack, n).bean]) + 1

\* A condition is evaluated for the definition or the group below it.
ConditionsAsked ==
    \A n \in 1..Len(stack) : Level(stack, n).kind = "cond" =>
        /\ n > 1 /\ ~Leaf(Level(stack, n - 1))
        /\ Level(stack, n).cond.op \in LeafOps \cup GroupOps
        /\ Level(stack, n - 1).kind = "bean" =>
              /\ Level(stack, n - 1).at > 1
              /\ Level(stack, n).cond
                    = Required[Level(stack, n - 1).bean][Level(stack, n - 1).at - 1]

\* No definition is resolved by two calls at a time, and each that is being
\* resolved has a call.
ResolvedOnce ==
    \A m, n \in 1..Len(stack) :
        /\ Level(stack, m).kind = "bean" /\ Level(stack, n).kind = "bean"
        /\ Level(stack, m).bean = Level(stack, n).bean
        => m = n

HasCall ==
    phase \in {"resolve", "done"} =>
        \A b \in Bean : status[b] = "resolving" =>
            \E n \in 1..Len(stack) :
                Level(stack, n).kind = "bean" /\ Level(stack, n).bean = b

\* A result waits for the innermost function, unless that is a Find, and for
\* resolveBean from its first condition on.
Answered ==
    /\ stack = << >> => ret = "none"
    /\ stack # << >> =>
         /\ Leaf(Level(stack, Len(stack))) => ret = "none"
         /\ Level(stack, Len(stack)).kind = "bean" =>
               (ret = "none" <=> Level(stack, Len(stack)).at = 1)

Backed(st, b, c) == \E w \in c.sel \ {b} : st[w] = "resolved"

\* What a Find holds is active for good, and so is what the conditions that
\* resolveBean has behind it rest on.
FoundIsActive ==
    \A n \in 1..Len(stack) : Leaf(Level(stack, n)) =>
        \A w \in Level(stack, n).found :
            w \in Level(stack, n).cond.sel /\ status[w] = "resolved"

PassedIsBacked ==
    \A n \in 1..Len(stack) : Level(stack, n).kind = "bean" =>
        \A k \in DOMAIN Required[Level(stack, n).bean] :
            /\ k < Level(stack, n).at - 1
            /\ Required[Level(stack, n).bean][k].op = "bean"
            => Backed(status, Level(stack, n).bean, Required[Level(stack, n).bean][k])

AnswerIsBacked ==
    stack # << >> /\ Level(stack, Len(stack)).kind = "bean" =>
        \A k \in DOMAIN Required[Level(stack, Len(stack)).bean] :
            /\ k = Level(stack, Len(stack)).at - 1
            /\ LET c == Required[Level(stack, Len(stack)).bean][k]
               IN  \/ ret = "true" /\ c.op = "bean"
                   \/ ret = "false" /\ c.op = "missing"
            => Backed(status, Level(stack, Len(stack)).bean,
                      Required[Level(stack, Len(stack)).bean][k])

\* The property itself, on the conditions as a function.
DecisionsBacked ==
    \A b \in Bean :
        /\ status[b] = "resolved" =>
              \A i \in DOMAIN Required[b] :
                  Required[b][i].op = "bean" => Backed(status, b, Required[b][i])
        /\ (/\ status[b] = "deleted"
            /\ \A i \in DOMAIN Required[b] : Required[b][i].op = "missing")
           => \E i \in DOMAIN Required[b] : Backed(status, b, Required[b][i])

\* What is left of the other phases: decisions are about the list, and
\* resolveBeans has decided all that its loop has passed.
Outside ==
    /\ phase # "resolve" => stack = << >>
    /\ phase \in {"provide", "modules"} => \A b \in Bean : status[b] = "default"
    /\ \A b \in Bean : status[b] # "default" => b \in ToSet(beans)
    /\ phase \in {"resolve", "done"} =>
          \A k \in DOMAIN beans : k < pos => status[beans[k]] # "default"
    /\ phase = "done" => pos \notin DOMAIN beans

\* The definitions of S in the list bs, yielding to each other by the conditions
\* req; one of them is active under the decisions st; a Find, at level n of the
\* stack s, has been called for one of them.
Rivals(bs, S) == S \cap ToSet(bs)
Missing(S) == << [op |-> "missing", sel |-> S] >>
Competing(bs, req, S) == \A b \in Rivals(bs, S) : req[b] = Missing(S)
Taken(bs, st, S) == \E w \in Rivals(bs, S) : st[w] = "resolved"
Asking(s, n, S) ==
    /\ n > 1
    /\ Level(s, n).kind = "cond"
    /\ Level(s, n - 1).kind = "bean"
    /\ Level(s, n - 1).bean \in S

\* As long as none of them is active, a Find has passed over those only whose
\* calls are below it; as soon as one is, every Find will find it.
NoneTaken ==
    \A S \in SUBSET Bean : Competing(beans, Required, S) /\ ~Taken(beans, status, S) =>
        \A n \in 1..Len(stack) : Asking(stack, n, S) =>
            \A k \in DOMAIN beans : k < Level(stack, n).at /\ beans[k] \in S =>
                \E m \in 1..(n - 1) :
                    Level(stack, m).kind = "bean" /\ Level(stack, m).bean = beans[k]

OneTaken ==
    \A S \in SUBSET Bean : Competing(beans, Required, S) /\ Taken(beans, status, S) =>
        \A n \in 1..Len(stack) : Asking(stack, n, S) =>
            \/ Level(stack, n).found # {}
            \/ \E k \in DOMAIN beans :
                  /\ k >= Level(stack, n).at
                  /\ beans[k] \in S /\ status[beans[k]] = "resolved"

MayTake ==
    \A S \in SUBSET Bean : Competing(beans, Required, S) =>
        ~ /\ stack # << >> /\ Level(stack, Len(stack)).kind = "bean"
          /\ Level(stack, Len(stack)).bean \in S /\ ret = "true"
          /\ Taken(beans, status, S)

TakenOnce ==
    \A S \in SUBSET Bean : Competing(beans, Required, S) =>
        \A x, y \in Rivals(beans, S) :
            status[x] = "resolved" /\ status[y] = "resolved" => x = y

Inv == /\ TypeOK /\ Outside
       /\ BeansUnderWay /\ ConditionsAsked /\ ResolvedOnce /\ HasCall /\ Answered
       /\ FoundIsActive /\ PassedIsBacked /\ AnswerIsBacked /\ DecisionsBacked
       /\ NoneTaken /\ OneTaken /\ MayTake /\ TakenOnce
-----------------------------------------------------------------------------
(* What a step of the resolving phase does to the levels of the stack.  f is *)
(* the innermost frame.                                                      *)

Rests == stack' = stack /\ status' = status /\ ret' = ret

Enters(b) ==
    /\ b \in ToSet(beans) /\ status[b] \in {"default", "deleted"}
    /\ stack # << >> => /\ Leaf(Level(stack, Len(stack)))
                        /\ b \in Level(stack, Len(stack)).cond.sel
    /\ ret = "none" /\ ret' = "none"
    /\ status' = [status EXCEPT ![b] = "resolving"]
    /\ Pushed(stack, stack', BeanFrameOf(b, 1))

\* f advances to g, and c is evaluated, at once or by a frame of its own.
Evaluates(f, g, c) ==
    /\ ret # "err" /\ status' = status
    /\ \/ /\ c.op = "const" /\ ret' = c.val /\ ret' \in Outcome
          /\ Swapped(stack, stack', g)
       \/ /\ c.op \in LeafOps \cup GroupOps /\ ret' = "none"
          /\ Called(stack, stack', g, CondFrameOf(c, 1, {}))

Judges(f) ==
    /\ f.kind = "bean" /\ ret # "false"
    /\ f.at \in DOMAIN Required[f.bean]
    /\ Evaluates(f, BeanFrameOf(f.bean, f.at + 1), Required[f.bean][f.at])

Accepts(f) ==
    /\ f.kind = "bean" /\ ret \notin {"false", "err"}
    /\ f.at \notin DOMAIN Required[f.bean]
    /\ status' = [status EXCEPT ![f.bean] = "resolved"]
    /\ Popped(stack, stack') /\ ret' = "none"

Rejects(f) ==
    /\ f.kind = "bean" /\ ret = "false"
    /\ status' = [status EXCEPT ![f.bean] = "deleted"]
    /\ Popped(stack, stack') /\ ret' = "none"

GroupAsks(f) ==
    /\ f.kind = "cond" /\ f.cond.op \in GroupOps
    /\ f.at \in DOMAIN f.cond.args /\ ret # StopsAt(f.cond.op)
    /\ \E c \in Cond : /\ c = f.cond.args[f.at]
                       /\ Evaluates(f, CondFrameOf(f.cond, f.at + 1, f.found), c)

GroupReturns(f) ==
    /\ f.kind = "cond" /\ f.cond.op \in GroupOps
    /\ status' = status
    /\ Popped(stack, stack') /\ ret' \in {"true", "false"}
    /\ \/ ret = StopsAt(f.cond.op) /\ ret' = OnStop(f.cond.op)
       \/ /\ ret \notin {StopsAt(f.cond.op), "err"} /\ f.at \notin DOMAIN f.cond.args
          /\ ret' = OnExhaust(f.cond.op)

Looks(f) ==
    /\ Leaf(f) /\ f.at \in DOMAIN beans
    /\ status' = status /\ ret' = ret
    /\ \/ /\ Skipped(beans[f.at], f.cond)
          /\ Swapped(stack, stack', CondFrameOf(f.cond, f.at + 1, f.found))
       \/ /\ ~Skipped(beans[f.at], f.cond) /\ status[beans[f.at]] # "default"
          /\ Swapped(stack, stack',
                     CondFrameOf(f.cond, f.at + 1, f.found \cup {beans[f.at]}))

FindReturns(f) ==
    /\ Leaf(f) /\ f.at \notin DOMAIN beans
    /\ status' = status
    /\ Popped(stack, stack')
    /\ ret' = IF Matched(f.cond.op, f.found) THEN "true" ELSE "false"

MoveOf(f) == \/ Judges(f) \/ Accepts(f) \/ Rejects(f)
             \/ GroupAsks(f) \/ GroupReturns(f)
             \/ Looks(f) \/ FindReturns(f)

Move == /\ Required' = Required /\ beans' = beans /\ stack' \in Seq(Frame)
        /\ \/ Rests
           \/ \E b \in Bean : Enters(b)
           \/ stack # << >> /\ MoveOf(Level(stack, Len(stack)))

LEMMA RequiredType ==
    ASSUME program \in ProgramType
    PROVE  Required \in [Bean -> Seq(Cond)]
BY ConditionsType DEF Required

LEMMA EvaluatesMove ==
    ASSUME stack \in Seq(Frame), stack # << >>, ret # "err", status' = status,
           NEW f, NEW g \in Frame, NEW c \in Cond,
           Evaluate(c, << g >> \o Tail(stack))
    PROVE  Evaluates(f, g, c)
<1>1. CASE c.op = "const"
  <2>1. ret' = c.val /\ ret' \in Outcome /\ stack' = << g >> \o Tail(stack)
    BY <1>1, Ops DEF Evaluate
  <2>2. Swapped(stack, stack', g)
    BY <2>1, Swap
  <2> QED
    BY <1>1, <2>1, <2>2 DEF Evaluates
<1>2. CASE c.op # "const"
  <2> DEFINE h == CondFrameOf(c, 1, {})
  <2>1. h \in Frame
    BY FrameMade
  <2>2. ret' = "none" /\ stack' = << h >> \o (<< g >> \o Tail(stack))
    BY <1>2 DEF Evaluate, CondFrameOf
  <2> HIDE DEF h
  <2>3. Called(stack, stack', g, h)
    BY <2>1, <2>2, SwapAndPush
  <2>4. c.op \in LeafOps \cup GroupOps
    BY <1>2, Ops
  <2> QED
    BY <2>2, <2>3, <2>4 DEF Evaluates, h
<1> QED
  BY <1>1, <1>2

LEMMA EntersMove ==
    ASSUME Inv, phase = "resolve", NEW b \in Bean, b \in ToSet(beans),
           status[b] \in {"default", "deleted"},
           stack # << >> => /\ Leaf(Level(stack, Len(stack)))
                            /\ b \in Level(stack, Len(stack)).cond.sel,
           EnterBean(b), UNCHANGED ret
    PROVE  Enters(b)
<1>1. stack \in Seq(Frame)
  BY DEF Inv, TypeOK, Frame
<1>2. BeanFrameOf(b, 1) \in Frame /\ stack' = << BeanFrameOf(b, 1) >> \o stack
  BY FrameMade DEF EnterBean, BeanFrameOf
<1>3. Pushed(stack, stack', BeanFrameOf(b, 1))
  BY <1>1, <1>2, Push
<1>4. ret = "none"
  BY DEF Inv, Answered
<1> QED
  BY <1>3, <1>4 DEF Enters, EnterBean

LEMMA Moves ==
    ASSUME Inv, [Next]_vars, phase = "resolve", phase' = "resolve"
    PROVE  Move
<1> DEFINE f == Level(stack, Len(stack))
<1>0. /\ stack \in Seq(Frame) /\ beans \in Seq(Bean) /\ pos \in Nat \ {0}
      /\ status \in [Bean -> Status] /\ ret \in Outcome \cup {"none"}
      /\ program \in ProgramType
      /\ \A i \in DOMAIN beans : beans[i] \in Bean /\ beans[i] \in ToSet(beans)
  BY DEF Inv, TypeOK, Frame, ToSet
<1>1. stack # << >> =>
         /\ f \in Frame /\ Top = f /\ Popped(stack, Tail(stack))
         /\ Tail(stack) \in Seq(Frame)
         /\ f.at \in Nat \ {0} /\ f.at + 1 \in Nat \ {0}
         /\ f.kind = "bean" => f.bean \in Bean
         /\ f.kind = "cond" => f.cond \in Cond /\ f.found \in SUBSET Bean
  BY <1>0, Pop, FrameType DEF Top
<1>2. \A b \in Bean : Conditions(b) = Required[b]
  BY DEF Required
<1>3. stack' \in Seq(Frame) /\ (program' = program => Required' = Required)
  BY SameProgram, TypeStep DEF Inv, TypeOK, Frame, Required
<1> HIDE DEF f
<1>4. CASE ResolveNext
  <2>1. CASE status[beans[pos]] \in {"resolving", "resolved"}
    BY <1>3, <1>4, <2>1 DEF ResolveNext, Rests, Move
  <2>2. CASE status[beans[pos]] \notin {"resolving", "resolved"}
    <3>1. EnterBean(beans[pos]) /\ stack = << >> /\ pos \in DOMAIN beans /\ UNCHANGED ret
      BY <1>4, <2>2 DEF ResolveNext
    <3>2. beans[pos] \in Bean /\ status[beans[pos]] \in {"default", "deleted"}
      BY <1>0, <2>2, <3>1 DEF Status
    <3>3. Enters(beans[pos])
      BY <1>0, <3>1, <3>2, EntersMove
    <3> QED
      BY <1>3, <1>4, <3>2, <3>3 DEF ResolveNext, Move
  <2> QED
    BY <2>1, <2>2
<1>5. CASE MatchNext
  <2>1. /\ stack # << >> /\ f.kind = "bean" /\ f.bean \in Bean /\ f \in Frame
        /\ ret # "err" /\ ret # "false"
    BY <1>1, <1>5 DEF MatchNext, InBean
  <2> DEFINE c == Required[f.bean][f.at]
             g == BeanFrameOf(f.bean, f.at + 1)
  <2>2. f.at \in DOMAIN Required[f.bean]
        /\ Evaluate(c, << [f EXCEPT !.at = @ + 1] >> \o Tail(stack))
    BY <1>1, <1>2, <1>5, <2>1 DEF MatchNext
  <2>3. g \in Frame /\ [f EXCEPT !.at = @ + 1] = g
    BY <1>1, <2>1, Advance, FrameMade
  <2>4. c \in Cond
    BY <1>0, <2>1, <2>2, RequiredType, Element
  <2>5. Evaluate(c, << g >> \o Tail(stack)) /\ status' = status
    BY <1>5, <2>2, <2>3 DEF MatchNext
  <2> HIDE DEF c, g
  <2>6. Evaluates(f, g, c)
    BY <1>0, <2>1, <2>3, <2>4, <2>5, EvaluatesMove
  <2>7. Judges(f)
    BY <2>1, <2>2, <2>6 DEF Judges, c, g
  <2> QED
    BY <1>3, <1>5, <2>1, <2>7 DEF MatchNext, Move, MoveOf, f
<1>6. CASE Accept
  <2>1. /\ stack # << >> /\ f.kind = "bean" /\ f.bean \in Bean
        /\ ret # "err" /\ ret # "false" /\ Top = f
    BY <1>1, <1>6 DEF Accept, InBean
  <2>2. f.at \notin DOMAIN Required[f.bean]
    BY <1>2, <1>6, <2>1 DEF Accept
  <2>3. Popped(stack, stack') /\ ret' = "none"
    BY <1>1, <1>6, <2>1 DEF Accept, Return
  <2>4. Accepts(f)
    BY <1>6, <2>1, <2>2, <2>3 DEF Accept, Accepts
  <2> QED
    BY <1>3, <1>6, <2>1, <2>4 DEF Accept, Move, MoveOf, f
<1>7. CASE Reject
  <2>1. stack # << >> /\ f.kind = "bean" /\ ret = "false" /\ Top = f
    BY <1>1, <1>7 DEF Reject, InBean
  <2>2. Popped(stack, stack') /\ ret' = "none"
    BY <1>1, <1>7, <2>1 DEF Reject, Return
  <2>3. Rejects(f)
    BY <1>7, <2>1, <2>2 DEF Reject, Rejects
  <2> QED
    BY <1>3, <1>7, <2>1, <2>3 DEF Reject, Move, MoveOf, f
<1>8. CASE GroupStep
  <2>1. /\ stack # << >> /\ f.kind = "cond" /\ f.cond.op \in GroupOps /\ ret # "err"
        /\ Top = f /\ f \in Frame /\ f.cond \in Cond /\ status' = status
    BY <1>1, <1>8 DEF GroupStep, InCond
  <2>2. CASE \/ ret = StopsAt(f.cond.op) /\ Return(OnStop(f.cond.op))
             \/ /\ ret # StopsAt(f.cond.op) /\ f.at \notin DOMAIN f.cond.args
                /\ Return(OnExhaust(f.cond.op))
    <3>1. GroupReturns(f)
      <4>1. OnStop(f.cond.op) \in {"true", "false"} /\ OnExhaust(f.cond.op) \in {"true", "false"}
        BY DEF OnStop, OnExhaust
      <4> QED
        BY <1>1, <2>1, <2>2, <4>1 DEF Return, GroupReturns
    <3> QED
      BY <1>3, <1>8, <2>1, <3>1 DEF GroupStep, Move, MoveOf, f
  <2> DEFINE c == f.cond.args[f.at]
             g == CondFrameOf(f.cond, f.at + 1, f.found)
  <2>3. CASE f.at \in DOMAIN f.cond.args /\ ret # StopsAt(f.cond.op)
             /\ Evaluate(c, << [f EXCEPT !.at = @ + 1] >> \o Tail(stack))
    <3>1. c \in Cond
      BY <2>1, <2>3, Ops, Element
    <3>2. g \in Frame /\ [f EXCEPT !.at = @ + 1] = g
      BY <1>1, <2>1, Advance, FrameMade
    <3>3. Evaluate(c, << g >> \o Tail(stack))
      BY <2>3, <3>2
    <3> HIDE DEF c, g
    <3>4. Evaluates(f, g, c)
      BY <1>0, <2>1, <3>1, <3>2, <3>3, EvaluatesMove
    <3>5. GroupAsks(f)
      BY <2>1, <2>3, <3>1, <3>4 DEF GroupAsks, c, g
    <3> QED
      BY <1>3, <1>8, <2>1, <3>5 DEF GroupStep, Move, MoveOf, f
  <2> QED
    BY <1>8, <2>1, <2>2, <2>3 DEF GroupStep
<1>9. CASE FindStep
  <2> DEFINE b == beans[f.at]
             F == IF Skipped(b, f.cond) THEN f.found ELSE f.found \cup {b}
  <2>1. /\ stack # << >> /\ f.kind = "cond" /\ f.cond.op \in LeafOps /\ ret # "err"
        /\ Top = f /\ f \in Frame /\ f.at \in DOMAIN beans /\ ret' = ret
        /\ program' = program /\ beans' = beans
    BY <1>1, <1>9 DEF FindStep, InCond
  <2>2. b \in Bean /\ b \in ToSet(beans) /\ Leaf(f)
    BY <1>0, <2>1 DEF Leaf
  <2>3. CASE status[b] = "default" /\ ~Skipped(b, f.cond)
    <3>1. EnterBean(b)
      BY <1>9, <2>1, <2>3 DEF FindStep
    <3>2. Enters(b)
      BY <2>1, <2>2, <2>3, <3>1, EntersMove DEF f, Skipped
    <3> QED
      BY <1>3, <2>1, <2>2, <3>2 DEF Move
  <2>4. CASE ~(status[b] = "default" /\ ~Skipped(b, f.cond))
    <3>1. status' = status
          /\ stack' = << [f EXCEPT !.at = @ + 1, !.found = F] >> \o Tail(stack)
      BY <1>9, <2>1, <2>4 DEF FindStep
    <3> HIDE DEF F
    <3>2. stack' = << CondFrameOf(f.cond, f.at + 1, F) >> \o Tail(stack)
      BY <2>1, <3>1, AdvanceFound
    <3>3. F \in SUBSET Bean
      BY <1>1, <2>1, <2>2 DEF F
    <3>4. CondFrameOf(f.cond, f.at + 1, F) \in Frame
      BY <1>1, <2>1, <3>3, FrameMade
    <3>5. Swapped(stack, stack', CondFrameOf(f.cond, f.at + 1, F))
      BY <1>0, <2>1, <3>2, <3>4, Swap
    <3>6. Looks(f)
      BY <2>1, <2>2, <2>4, <3>1, <3>5 DEF Looks, F
    <3> QED
      BY <1>3, <2>1, <3>6 DEF Move, MoveOf, f
  <2> QED
    BY <2>3, <2>4
<1>10. CASE FindReturn
  <2>1. /\ stack # << >> /\ Leaf(f) /\ Top = f
    BY <1>1, <1>10 DEF FindReturn, InCond, Leaf
  <2>2. FindReturns(f)
    BY <1>1, <1>10, <2>1 DEF FindReturn, Return, FindReturns
  <2> QED
    BY <1>3, <1>10, <2>1, <2>2 DEF FindReturn, Move, MoveOf, f
<1>11. CASE UNCHANGED vars
  BY <1>3, <1>11 DEF vars, Move, Rests
<1> QED
  BY <1>4, <1>5, <1>6, <1>7, <1>8, <1>9, <1>10, <1>11
  DEF Next, Step, Terminated, Provide, Refresh, ApplyModule, ScanConfigurations, Abort,
      CheckDuplicateBeans
-----------------------------------------------------------------------------
(* Every move preserves the invariant: the shape of the stack.              *)

LEMMA Fields ==
    /\ \A b, i : /\ BeanFrameOf(b, i).kind = "bean"
                 /\ BeanFrameOf(b, i).bean = b /\ BeanFrameOf(b, i).at = i
    /\ \A c, i, F : /\ CondFrameOf(c, i, F).kind = "cond" /\ CondFrameOf(c, i, F).cond = c
                    /\ CondFrameOf(c, i, F).at = i /\ CondFrameOf(c, i, F).found = F
BY DEF BeanFrameOf, CondFrameOf

LEMMA LevelTypes ==
    ASSUME NEW s \in Seq(Frame)
    PROVE  /\ Len(s) \in Nat /\ (s = << >> <=> Len(s) = 0)
           /\ \A n \in 1..Len(s) :
                 /\ Level(s, n).kind \in {"bean", "cond"} /\ Level(s, n).at \in Nat \ {0}
                 /\ Level(s, n).kind = "bean" => Level(s, n).bean \in Bean
                 /\ Level(s, n).kind = "cond" => /\ Level(s, n).cond \in Cond
                                                 /\ Level(s, n).found \in SUBSET Bean
<1>1. Len(s) \in Nat /\ (s = << >> <=> Len(s) = 0)
  OBVIOUS
<1>2. \A n \in 1..Len(s) : Level(s, n) \in Frame
  BY Levels
<1> QED
  BY <1>1, <1>2, FrameType

\* What every step below relies on.
LEMMA Facts ==
    ASSUME Inv
    PROVE  /\ Len(stack) \in Nat /\ (stack = << >> <=> Len(stack) = 0)
           /\ \A n \in 1..Len(stack) :
                 /\ Level(stack, n).kind \in {"bean", "cond"}
                 /\ Level(stack, n).at \in Nat \ {0}
                 /\ Level(stack, n).kind = "bean" => Level(stack, n).bean \in Bean
                 /\ Level(stack, n).kind = "cond" => /\ Level(stack, n).cond \in Cond
                                                     /\ Level(stack, n).found \in SUBSET Bean
           /\ Required \in [Bean -> Seq(Cond)]
           /\ \A b \in Bean : /\ Len(Required[b]) \in Nat
                              /\ DOMAIN Required[b] = 1..Len(Required[b])
                              /\ \A i \in DOMAIN Required[b] : Required[b][i] \in Cond
           /\ beans \in Seq(Bean) /\ Len(beans) \in Nat /\ DOMAIN beans = 1..Len(beans)
           /\ \A i \in DOMAIN beans : beans[i] \in Bean /\ beans[i] \in ToSet(beans)
           /\ \A b \in ToSet(beans) : b \in Bean /\ \E i \in DOMAIN beans : beans[i] = b
           /\ status \in [Bean -> Status] /\ ret \in Outcome \cup {"none"}
<1>1. stack \in Seq(Frame) /\ program \in ProgramType
      /\ beans \in Seq(Bean) /\ status \in [Bean -> Status] /\ ret \in Outcome \cup {"none"}
  BY DEF Inv, TypeOK, Frame
<1>2. Required \in [Bean -> Seq(Cond)]
  BY <1>1, RequiredType
<1>3. \A b \in Bean : /\ Len(Required[b]) \in Nat
                      /\ DOMAIN Required[b] = 1..Len(Required[b])
                      /\ \A i \in DOMAIN Required[b] : Required[b][i] \in Cond
  BY <1>2
<1>4. /\ Len(beans) \in Nat /\ DOMAIN beans = 1..Len(beans)
      /\ \A i \in DOMAIN beans : beans[i] \in Bean /\ beans[i] \in ToSet(beans)
      /\ \A b \in ToSet(beans) : b \in Bean /\ \E i \in DOMAIN beans : beans[i] = b
  BY <1>1 DEF ToSet
<1> QED
  BY <1>1, <1>2, <1>3, <1>4, LevelTypes

\* Below the innermost frame nothing moves, and no decision is made.
LEMMA Below ==
    ASSUME Inv, Move
    PROVE  /\ Len(stack') \in {Len(stack) - 1, Len(stack), Len(stack) + 1}
           /\ Len(stack') \in Nat /\ (stack' = << >> <=> Len(stack') = 0)
           /\ \A n \in 1..(Len(stack) - 1) :
                 /\ Level(stack', n) = Level(stack, n)
                 /\ Level(stack, n).kind = "bean" => status'[Level(stack, n).bean] = "resolving"
<1> DEFINE D == Len(stack)
           f == Level(stack, D)
           Still == \A n \in 1..(D - 1) : Level(stack', n) = Level(stack, n)
           Resolving(st) == \A n \in 1..(D - 1) :
                               Level(stack, n).kind = "bean" => st[Level(stack, n).bean] = "resolving"
<1>0. Len(stack') \in Nat /\ (stack' = << >> <=> Len(stack') = 0)
  BY LevelTypes DEF Move
<1> SUFFICES Len(stack') \in {D - 1, D, D + 1} /\ Still /\ Resolving(status')
  BY <1>0
<1>1. /\ D \in Nat /\ (stack # << >> => D \in 1..D)
      /\ \A n \in 1..(D - 1) : n \in 1..D /\ n # D
      /\ \A n \in 1..D : Level(stack, n).kind = "bean" => Level(stack, n).bean \in Bean
      /\ status \in [Bean -> Status]
  <2>1. D \in Nat /\ (stack = << >> <=> D = 0)
    BY Facts
  <2>2. (stack # << >> => D \in 1..D) /\ \A n \in 1..(D - 1) : n \in 1..D /\ n # D
    BY <2>1
  <2> QED
    BY <2>1, <2>2, Facts
<1>2. Resolving(status)
  BY <1>1 DEF Inv, BeansUnderWay
<1>3. \A n \in 1..(D - 1) :
         Level(stack, n).kind = "bean" /\ stack # << >> /\ f.kind = "bean"
         => Level(stack, n).bean # f.bean
  BY <1>1 DEF Inv, ResolvedOnce
<1> HIDE DEF D
<1>4. CASE Rests
  BY <1>1, <1>2, <1>4 DEF Rests, D
<1>5. ASSUME NEW b \in Bean, Enters(b) PROVE Len(stack') = D + 1 /\ Still /\ Resolving(status')
  <2>1. /\ Len(stack') = D + 1 /\ \A n \in 1..D : Level(stack', n) = Level(stack, n)
        /\ status[b] # "resolving" /\ status' = [status EXCEPT ![b] = "resolving"]
    BY <1>5 DEF Enters, Pushed, SameUpTo, D
  <2> QED
    BY <1>1, <1>2, <2>1
<1>6. CASE stack # << >> /\ (Accepts(f) \/ Rejects(f))
  <2>1. /\ Len(stack') = D - 1 /\ Still /\ f.kind = "bean"
        /\ \E v : status' = [status EXCEPT ![f.bean] = v]
    BY <1>6 DEF Accepts, Rejects, Popped, SameUpTo, D
  <2> HIDE DEF f
  <2> QED
    BY <1>1, <1>2, <1>3, <1>6, <2>1
<1>7. CASE stack # << >> /\ (GroupReturns(f) \/ FindReturns(f))
  <2>1. Len(stack') = D - 1 /\ Still /\ status' = status
    BY <1>7 DEF GroupReturns, FindReturns, Popped, SameUpTo, D
  <2> QED
    BY <1>2, <2>1
<1>8. CASE stack # << >> /\ (Judges(f) \/ GroupAsks(f) \/ Looks(f))
  <2>1. Len(stack') \in {D, D + 1} /\ Still /\ status' = status
    BY <1>8 DEF Judges, GroupAsks, Looks, Evaluates, Swapped, Called, SameUpTo, D
  <2> QED
    BY <1>2, <2>1
<1> QED
  BY <1>4, <1>5, <1>6, <1>7, <1>8 DEF Move, MoveOf, D

\* A decision for a definition is never taken back: a resolved one stays
\* resolved, and no definition becomes undecided again.
LEMMA Decisions ==
    ASSUME Inv, Move
    PROVE  /\ \A b \in Bean : /\ status[b] = "resolved" => status'[b] = "resolved"
                              /\ status[b] # "default" => status'[b] # "default"
                              /\ status'[b] # "default" => b \in ToSet(beans)
<1> DEFINE f == Level(stack, Len(stack))
<1>1. BeansUnderWay /\ \A b \in Bean : status[b] # "default" => b \in ToSet(beans)
  BY DEF Inv, Outside
<1>2. CASE Rests
  BY <1>1, <1>2 DEF Rests
<1>3. CASE \E b \in Bean : Enters(b)
  BY <1>1, <1>3, Facts DEF Enters
<1>4. CASE stack # << >> /\ (Accepts(f) \/ Rejects(f))
  BY <1>1, <1>4, Facts DEF Accepts, Rejects, BeansUnderWay
<1>5. CASE stack # << >> /\ (Judges(f) \/ GroupAsks(f) \/ GroupReturns(f)
                             \/ Looks(f) \/ FindReturns(f))
  BY <1>1, <1>5 DEF Judges, GroupAsks, GroupReturns, Looks, FindReturns, Evaluates
<1> QED
  BY <1>2, <1>3, <1>4, <1>5 DEF Move, MoveOf

LEMMA BeansUnderWayStep ==
    ASSUME Inv, Move
    PROVE  BeansUnderWay'
<1> DEFINE D == Len(stack)
           f == Level(stack, D)
           Goal(n) == /\ status'[Level(stack', n).bean] = "resolving"
                      /\ Level(stack', n).bean \in ToSet(beans)
                      /\ n > 1 => Leaf(Level(stack', n - 1))
                      /\ Level(stack', n).at <= Len(Required[Level(stack', n).bean]) + 1
<1>0. D \in Nat /\ Len(stack') \in Nat
  BY Facts, Below
<1>1. BeansUnderWay /\ Required' = Required /\ beans' = beans
  BY DEF Inv, Move
<1>2. CASE Rests
  BY <1>1, <1>2 DEF Rests, BeansUnderWay
<1>3. SUFFICES ASSUME ~Rests, NEW n \in 1..Len(stack'), Level(stack', n).kind = "bean"
               PROVE  Goal(n)
  <2> HIDE DEF Goal
  <2>1. ASSUME ~Rests
        PROVE  \A n \in 1..Len(stack') : Level(stack', n).kind = "bean" => Goal(n)
    BY <1>3, <2>1
  <2> QED
    BY <1>1, <1>2, <2>1 DEF Goal, BeansUnderWay
<1>4. CASE n < D
  <2>1. Level(stack', n) = Level(stack, n) /\ n \in 1..D
        /\ status'[Level(stack, n).bean] = "resolving"
    BY <1>0, <1>3, <1>4, Below
  <2>2. n > 1 => Level(stack', n - 1) = Level(stack, n - 1)
    BY <1>0, <1>4, Below
  <2> QED
    BY <1>1, <1>3, <2>1, <2>2 DEF BeansUnderWay
<1>5. CASE n >= D
  <2>0. n > 1 => n - 1 \in 1..D /\ (n > D => n = D + 1) /\ (n <= D => n = D)
    BY <1>0, <1>5, Below
  <2>1. ASSUME NEW b \in Bean, Enters(b) PROVE Goal(n)
    <3>1. Level(stack', D + 1) = BeanFrameOf(b, 1) /\ status' = [status EXCEPT ![b] = "resolving"]
          /\ b \in ToSet(beans) /\ status[b] # "resolving" /\ (stack # << >> => Leaf(f))
          /\ \A m \in 1..D : Level(stack', m) = Level(stack, m)
      BY <2>1 DEF Enters, Pushed, SameUpTo
    <3>2. CASE n = D + 1
      <4>1. n > 1 => Level(stack', n - 1) = f /\ stack # << >>
        BY <1>0, <3>1, <3>2, Facts
      <4> QED
        BY <3>1, <3>2, <4>1, Facts, Fields
    <3>3. CASE n = D /\ D \in 1..D
      <4>1. n > 1 => Level(stack', n - 1) = Level(stack, n - 1)
        BY <1>0, <3>1, <3>3
      <4>2. Level(stack', n) = f /\ f.kind = "bean" /\ f.bean # b
        BY <1>1, <1>3, <3>1, <3>3 DEF BeansUnderWay
      <4> QED
        BY <1>1, <3>1, <3>3, <4>1, <4>2, Facts DEF BeansUnderWay
    <3> QED
      BY <1>0, <1>3, <1>5, <3>2, <3>3, Below
  <2>2. CASE stack # << >> /\ Judges(f)
    <3>1. D \in 1..D /\ f.kind = "bean" /\ f.bean \in Bean /\ f.at \in DOMAIN Required[f.bean]
      BY <2>2, Facts DEF Judges
    <3>2. /\ Level(stack', D) = BeanFrameOf(f.bean, f.at + 1) /\ status' = status
          /\ Len(stack') > D => Level(stack', D + 1).kind = "cond"
      BY <1>0, <2>2, <3>1, Fields DEF Judges, Evaluates, Swapped, Called
    <3>3. n = D
      BY <1>0, <1>3, <1>5, <3>2, Below
    <3>4. n > 1 => Level(stack', n - 1) = Level(stack, n - 1)
      BY <1>0, <3>3, Below
    <3>5. /\ status[f.bean] = "resolving" /\ f.bean \in ToSet(beans)
          /\ D > 1 => Leaf(Level(stack, D - 1))
      BY <1>1, <3>1 DEF BeansUnderWay
    <3>6. f.at + 1 <= Len(Required[f.bean]) + 1
      BY <3>1, Facts
    <3>7. Level(stack', n).bean = f.bean /\ Level(stack', n).at = f.at + 1
      BY <3>2, <3>3, Fields
    <3> HIDE DEF f
    <3> QED
      BY <1>1, <3>2, <3>3, <3>4, <3>5, <3>6, <3>7
  <2>3. CASE stack # << >> /\ (Accepts(f) \/ Rejects(f) \/ GroupReturns(f) \/ FindReturns(f))
    BY <1>0, <1>3, <1>5, <2>3 DEF Accepts, Rejects, GroupReturns, FindReturns, Popped
  <2>4. CASE stack # << >> /\ (GroupAsks(f) \/ Looks(f))
    <3>1. /\ Level(stack', D).kind = "cond"
          /\ Len(stack') > D => Level(stack', D + 1).kind = "cond"
      BY <1>0, <2>4, Fields DEF GroupAsks, Looks, Evaluates, Swapped, Called
    <3> QED
      BY <1>0, <1>3, <1>5, <3>1, Below
  <2> QED
    BY <1>1, <1>3, <2>1, <2>2, <2>3, <2>4 DEF Move, MoveOf
<1> QED
  BY <1>0, <1>4, <1>5

LEMMA ConditionsAskedStep ==
    ASSUME Inv, Move
    PROVE  ConditionsAsked'
<1> DEFINE D == Len(stack)
           f == Level(stack, D)
           Goal(n) == /\ n > 1 /\ ~Leaf(Level(stack', n - 1))
                      /\ Level(stack', n).cond.op \in LeafOps \cup GroupOps
                      /\ Level(stack', n - 1).kind = "bean" =>
                            /\ Level(stack', n - 1).at > 1
                            /\ Level(stack', n).cond
                                  = Required[Level(stack', n - 1).bean][Level(stack', n - 1).at - 1]
<1>0. D \in Nat /\ Len(stack') \in Nat /\ LeafOps \cap GroupOps = {}
  BY Facts, Below DEF LeafOps, GroupOps
<1>1. ConditionsAsked /\ Required' = Required
  BY DEF Inv, Move
<1>2. CASE Rests
  BY <1>1, <1>2 DEF Rests, ConditionsAsked
<1>3. SUFFICES ASSUME ~Rests, NEW n \in 1..Len(stack'), Level(stack', n).kind = "cond"
               PROVE  Goal(n)
  <2> HIDE DEF Goal
  <2>1. ASSUME ~Rests
        PROVE  \A n \in 1..Len(stack') : Level(stack', n).kind = "cond" => Goal(n)
    BY <1>3, <2>1
  <2> QED
    BY <1>1, <1>2, <2>1 DEF Goal, ConditionsAsked
<1>4. CASE n < D
  <2>1. Level(stack', n) = Level(stack, n) /\ n \in 1..D
    BY <1>0, <1>3, <1>4, Below
  <2>2. n > 1
    BY <1>1, <1>3, <2>1 DEF ConditionsAsked
  <2>3. Level(stack', n - 1) = Level(stack, n - 1)
    BY <1>0, <1>4, <2>2, Below
  <2> QED
    BY <1>1, <1>3, <2>1, <2>3 DEF ConditionsAsked
<1>5. CASE n >= D
  <2>1. ASSUME NEW b \in Bean, Enters(b) PROVE Goal(n)
    <3>1. Level(stack', D + 1).kind = "bean" /\ \A m \in 1..D : Level(stack', m) = Level(stack, m)
      BY <2>1, Fields DEF Enters, Pushed, SameUpTo
    <3>2. n = D /\ n \in 1..D /\ Level(stack', n) = f
      BY <1>0, <1>3, <1>5, <3>1, Below
    <3>3. n > 1
      BY <1>1, <1>3, <3>2 DEF ConditionsAsked
    <3>4. Level(stack', n - 1) = Level(stack, n - 1)
      BY <1>0, <3>1, <3>2, <3>3
    <3> QED
      BY <1>1, <1>3, <3>2, <3>4 DEF ConditionsAsked
  <2>2. ASSUME stack # << >>, NEW g, NEW c, Evaluates(f, g, c),
               g.kind = f.kind, ~Leaf(f),
               g.kind = "cond" => g.cond = f.cond,
               g.kind = "bean" => /\ g.bean = f.bean /\ g.at = f.at + 1
                                  /\ c = Required[f.bean][f.at]
        PROVE  Goal(n)
    <3>1. D \in 1..D /\ f.at \in Nat \ {0}
      BY <2>2, Facts
    <3>2. Level(stack', D) = g
      BY <2>2 DEF Evaluates, Swapped, Called
    <3>3. CASE n = D
      <4>1. f.kind = "cond" /\ g.cond = f.cond /\ n \in 1..D
        BY <1>3, <2>2, <3>1, <3>2, <3>3
      <4>2. n > 1
        BY <1>1, <3>3, <4>1 DEF ConditionsAsked
      <4>3. Level(stack', n - 1) = Level(stack, n - 1)
        BY <1>0, <3>3, <4>2, Below
      <4> QED
        BY <1>1, <3>2, <3>3, <4>1, <4>3 DEF ConditionsAsked
    <3>4. CASE n = D + 1
      <4>1. Level(stack', n) = CondFrameOf(c, 1, {}) /\ c.op \in LeafOps \cup GroupOps
        BY <1>0, <1>3, <2>2, <3>4 DEF Evaluates, Swapped, Called
      <4>2. n > 1 /\ n - 1 = D /\ ~Leaf(g)
        BY <2>2, <3>1, <3>4 DEF Leaf
      <4>3. g.kind = "bean" => g.at > 1 /\ c = Required[g.bean][g.at - 1]
        BY <2>2, <3>1
      <4> QED
        BY <3>2, <4>1, <4>2, <4>3, Fields
    <3> QED
      BY <1>0, <1>3, <1>5, <3>3, <3>4, Below
  <2>3. CASE stack # << >> /\ Judges(f)
    BY <2>2, <2>3, Fields DEF Judges, Leaf
  <2>4. CASE stack # << >> /\ GroupAsks(f)
    <3>1. PICK c \in Cond : Evaluates(f, CondFrameOf(f.cond, f.at + 1, f.found), c)
      BY <2>4 DEF GroupAsks
    <3> QED
      BY <1>0, <2>2, <2>4, <3>1, Fields DEF GroupAsks, Leaf
  <2>5. CASE stack # << >> /\ (Accepts(f) \/ Rejects(f) \/ GroupReturns(f) \/ FindReturns(f))
    BY <1>0, <1>3, <1>5, <2>5 DEF Accepts, Rejects, GroupReturns, FindReturns, Popped
  <2>6. CASE stack # << >> /\ Looks(f)
    <3>1. /\ Level(stack', D).kind = "cond" /\ Level(stack', D).cond = f.cond /\ Len(stack') = D
          /\ f.kind = "cond"
      BY <2>6, Fields DEF Looks, Swapped, Leaf
    <3>2. n = D /\ n \in 1..D
      BY <1>0, <1>3, <1>5, <3>1
    <3>3. n > 1
      BY <1>1, <3>1, <3>2 DEF ConditionsAsked
    <3>4. Level(stack', n - 1) = Level(stack, n - 1)
      BY <1>0, <3>2, <3>3, Below
    <3> QED
      BY <1>1, <3>1, <3>2, <3>4 DEF ConditionsAsked
  <2> QED
    BY <1>3, <2>1, <2>3, <2>4, <2>5, <2>6 DEF Move, MoveOf
<1> QED
  BY <1>0, <1>4, <1>5

\* A frame of resolveBean was there before, or a definition without a call
\* has been entered.
LEMMA BeansOf ==
    ASSUME Inv, Move, NEW n \in 1..Len(stack'), Level(stack', n).kind = "bean"
    PROVE  \/ /\ n \in 1..Len(stack) /\ Level(stack, n).kind = "bean"
              /\ Level(stack', n).bean = Level(stack, n).bean
           \/ /\ n = Len(stack) + 1 /\ Level(stack', n).bean \in Bean
              /\ Enters(Level(stack', n).bean)
<1> DEFINE D == Len(stack)
           f == Level(stack, D)
<1>0. D \in Nat /\ Len(stack') \in Nat
  BY Facts, Below
<1>1. CASE n < D
  BY <1>0, <1>1, Below
<1>2. CASE n >= D
  <2>1. CASE Rests
    BY <1>0, <1>2, <2>1 DEF Rests
  <2>2. ASSUME NEW b \in Bean, Enters(b)
        PROVE  \/ n \in 1..D /\ Level(stack', n) = Level(stack, n)
               \/ n = D + 1 /\ Level(stack', n).bean = b
    <3>1. /\ Len(stack') = D + 1 /\ \A m \in 1..D : Level(stack', m) = Level(stack, m)
          /\ Level(stack', D + 1).bean = b
      BY <2>2, Fields DEF Enters, Pushed, SameUpTo
    <3> QED
      BY <1>0, <1>2, <3>1
  <2>3. CASE stack # << >> /\ (Accepts(f) \/ Rejects(f) \/ GroupReturns(f) \/ FindReturns(f))
    BY <1>0, <1>2, <2>3 DEF Accepts, Rejects, GroupReturns, FindReturns, Popped
  <2>4. CASE stack # << >> /\ (Judges(f) \/ GroupAsks(f) \/ Looks(f))
    <3>0. D \in 1..D
      BY <2>4, Facts
    <3>1. /\ Level(stack', D).kind = "bean" =>
                f.kind = "bean" /\ Level(stack', D).bean = f.bean
          /\ Len(stack') > D => Level(stack', D + 1).kind = "cond"
      <4>1. CASE Judges(f)
        BY <1>0, <4>1, Fields DEF Judges, Evaluates, Swapped, Called
      <4>2. CASE GroupAsks(f)
        BY <1>0, <4>2, Fields DEF GroupAsks, Evaluates, Swapped, Called
      <4>3. CASE Looks(f)
        BY <1>0, <4>3, Fields DEF Looks, Swapped
      <4> QED
        BY <2>4, <4>1, <4>2, <4>3
    <3> QED
      BY <1>0, <1>2, <3>0, <3>1, Below
  <2> QED
    BY <2>1, <2>2, <2>3, <2>4 DEF Move, MoveOf
<1> QED
  BY <1>0, <1>1, <1>2

LEMMA ResolvedOnceStep ==
    ASSUME Inv, Move
    PROVE  ResolvedOnce'
<1> SUFFICES ASSUME NEW m \in 1..Len(stack'), NEW n \in 1..Len(stack'),
                    Level(stack', m).kind = "bean", Level(stack', n).kind = "bean",
                    Level(stack', m).bean = Level(stack', n).bean
             PROVE  m = n
  BY DEF ResolvedOnce
<1>1. ResolvedOnce /\ BeansUnderWay
  BY DEF Inv
<1>2. ASSUME NEW b \in Bean, Enters(b), NEW i \in 1..Len(stack), Level(stack, i).kind = "bean"
      PROVE  Level(stack, i).bean # b
  BY <1>1, <1>2 DEF Enters, BeansUnderWay
<1> QED
  BY <1>1, <1>2, BeansOf DEF ResolvedOnce
-----------------------------------------------------------------------------
(* Every move preserves the invariant: answers and decisions.               *)

\* A call of resolveBean stays until it decides.
LEMMA CallsStay ==
    ASSUME Inv, Move, NEW n \in 1..Len(stack), Level(stack, n).kind = "bean"
    PROVE  \/ /\ n \in 1..Len(stack') /\ Level(stack', n).kind = "bean"
              /\ Level(stack', n).bean = Level(stack, n).bean
           \/ /\ n = Len(stack)
              /\ \/ Accepts(Level(stack, Len(stack)))
                 \/ Rejects(Level(stack, Len(stack)))
<1> DEFINE D == Len(stack)
           f == Level(stack, D)
<1>0. D \in Nat /\ Len(stack') \in Nat
  BY Facts, Below
<1>1. CASE n < D
  <2>1. n \in 1..Len(stack') /\ Level(stack', n) = Level(stack, n)
    BY <1>0, <1>1, Below
  <2> QED
    BY <2>1
<1>2. CASE n = D
  <2>1. CASE Rests
    BY <1>2, <2>1 DEF Rests
  <2>2. CASE \E b \in Bean : Enters(b)
    BY <1>0, <1>2, <2>2 DEF Enters, Pushed, SameUpTo
  <2>3. CASE stack # << >> /\ (Accepts(f) \/ Rejects(f) \/ GroupReturns(f) \/ FindReturns(f)
                               \/ GroupAsks(f) \/ Looks(f))
    BY <1>2, <2>3 DEF GroupReturns, FindReturns, GroupAsks, Looks, Leaf
  <2>4. CASE stack # << >> /\ Judges(f)
    BY <1>0, <1>2, <2>4, Fields DEF Judges, Evaluates, Swapped, Called
  <2> QED
    BY <2>1, <2>2, <2>3, <2>4 DEF Move, MoveOf
<1> QED
  BY <1>0, <1>1, <1>2

LEMMA HasCallStep ==
    ASSUME Inv, Move, phase = "resolve"
    PROVE  HasCall'
<1> DEFINE D == Len(stack)
           f == Level(stack, D)
<1>0. D \in Nat /\ BeansUnderWay
      /\ \A b \in Bean : status[b] = "resolving" =>
            \E n \in 1..D : Level(stack, n).kind = "bean" /\ Level(stack, n).bean = b
  BY Facts DEF Inv, HasCall
<1> SUFFICES ASSUME NEW b \in Bean, status'[b] = "resolving"
             PROVE  \E n \in 1..Len(stack') :
                       Level(stack', n).kind = "bean" /\ Level(stack', n).bean = b
  BY DEF HasCall
<1>1. CASE status[b] = "resolving"
  <2>1. PICK n \in 1..D : Level(stack, n).kind = "bean" /\ Level(stack, n).bean = b
    BY <1>0, <1>1
  <2>2. ASSUME n = D, Accepts(f) \/ Rejects(f) PROVE FALSE
    BY <1>0, <2>1, <2>2, Facts DEF Accepts, Rejects
  <2> QED
    BY <2>1, <2>2, CallsStay
<1>2. CASE status[b] # "resolving"
  <2>1. CASE Enters(b)
    <3>1. Len(stack') = D + 1 /\ Level(stack', D + 1) = BeanFrameOf(b, 1)
      BY <2>1 DEF Enters, Pushed
    <3> QED
      BY <1>0, <3>1, Fields
  <2>2. CASE ~Enters(b)
    <3>1. CASE \E x \in Bean : Enters(x)
      BY <1>2, <2>2, <3>1, Facts DEF Enters
    <3>2. CASE stack # << >> /\ (Accepts(f) \/ Rejects(f))
      BY <1>0, <1>2, <3>2, Facts DEF Accepts, Rejects, BeansUnderWay
    <3>3. CASE \/ Rests
               \/ /\ stack # << >>
                  /\ Judges(f) \/ GroupAsks(f) \/ GroupReturns(f) \/ Looks(f) \/ FindReturns(f)
      BY <1>2, <3>3
      DEF Rests, Judges, GroupAsks, GroupReturns, Looks, FindReturns, Evaluates
    <3> QED
      BY <3>1, <3>2, <3>3 DEF Move, MoveOf
  <2> QED
    BY <2>1, <2>2
<1> QED
  BY <1>1, <1>2

\* Who receives the result of a condition: the definition it was evaluated
\* for, or a group.
LEMMA CallerOf ==
    ASSUME Inv, stack # << >>, Level(stack, Len(stack)).kind = "cond", Popped(stack, stack'),
           NEW g, g = Level(stack', Len(stack'))
    PROVE  /\ Len(stack) - 1 \in 1..Len(stack) /\ Len(stack') = Len(stack) - 1
           /\ g = Level(stack, Len(stack) - 1) /\ ~Leaf(g)
           /\ g.kind = "bean" =>
                 /\ g.at > 1 /\ g.bean \in Bean
                 /\ Level(stack, Len(stack)).cond = Required[g.bean][g.at - 1]
<1>1. ConditionsAsked /\ Len(stack) \in 1..Len(stack)
  BY Facts DEF Inv
<1>2. Len(stack) > 1 /\ Len(stack') = Len(stack) - 1
  BY <1>1 DEF ConditionsAsked, Popped
<1>3. Len(stack) - 1 \in 1..Len(stack) /\ g = Level(stack, Len(stack) - 1)
  BY <1>1, <1>2 DEF Popped, SameUpTo
<1> QED
  BY <1>1, <1>2, <1>3, Facts DEF ConditionsAsked

\* resolveBean returns to a Find, or to resolveBeans.
LEMMA FinderOf ==
    ASSUME Inv, stack # << >>, Level(stack, Len(stack)).kind = "bean", Popped(stack, stack'),
           Len(stack') # 0
    PROVE  Leaf(Level(stack', Len(stack')))
<1>1. BeansUnderWay /\ Len(stack) \in 1..Len(stack)
  BY Facts DEF Inv
<1>2. Len(stack) > 1 /\ Len(stack') = Len(stack) - 1
        /\ Level(stack', Len(stack')) = Level(stack, Len(stack) - 1)
  BY <1>1 DEF Popped, SameUpTo
<1> QED
  BY <1>1, <1>2 DEF BeansUnderWay

LEMMA AnsweredStep ==
    ASSUME Inv, Move
    PROVE  Answered'
<1> DEFINE D == Len(stack)
           E == Len(stack')
           f == Level(stack, D)
           g == Level(stack', E)
<1>0. /\ Answered /\ D \in Nat /\ (stack = << >> <=> D = 0) /\ LeafOps \cap GroupOps = {}
      /\ E \in Nat /\ (stack' = << >> <=> E = 0)
      /\ (stack # << >> => f.at \in Nat \ {0})
  BY Facts, Below DEF Inv, LeafOps, GroupOps
<1> SUFFICES /\ E = 0 => ret' = "none"
             /\ E # 0 => /\ Leaf(g) => ret' = "none"
                         /\ g.kind = "bean" => (ret' = "none" <=> g.at = 1)
  BY <1>0 DEF Answered
<1>1. CASE Rests
  BY <1>0, <1>1 DEF Rests, Answered
<1>2. CASE \E b \in Bean : Enters(b)
  BY <1>0, <1>2, Fields DEF Enters, Pushed, Leaf
<1>3. CASE stack # << >> /\ Judges(f)
  <2>1. ASSUME NEW c, Evaluates(f, BeanFrameOf(f.bean, f.at + 1), c)
        PROVE  \/ ret' \in Outcome /\ g = BeanFrameOf(f.bean, f.at + 1) /\ E = D
               \/ ret' = "none" /\ g.kind = "cond" /\ E = D + 1
    BY <2>1, Fields DEF Evaluates, Swapped, Called
  <2>2. "none" \notin Outcome
    BY DEF Outcome
  <2> QED
    BY <1>0, <1>3, <2>1, <2>2, Fields DEF Judges, Leaf
<1>4. CASE stack # << >> /\ GroupAsks(f)
  <2>1. PICK c : Evaluates(f, CondFrameOf(f.cond, f.at + 1, f.found), c)
    BY <1>4 DEF GroupAsks
  <2>2. \/ g = CondFrameOf(f.cond, f.at + 1, f.found) /\ E = D
        \/ ret' = "none" /\ g.kind = "cond" /\ E = D + 1
    BY <2>1, Fields DEF Evaluates, Swapped, Called
  <2> QED
    BY <1>0, <1>4, <2>2, Fields DEF GroupAsks, Leaf
<1>5. CASE stack # << >> /\ (Accepts(f) \/ Rejects(f))
  <2>1. ret' = "none" /\ (E # 0 => Leaf(g))
    BY <1>5, FinderOf DEF Accepts, Rejects
  <2> QED
    BY <2>1 DEF Leaf
<1>6. CASE stack # << >> /\ (GroupReturns(f) \/ FindReturns(f))
  <2>1. f.kind = "cond" /\ Popped(stack, stack') /\ ret' \in {"true", "false"}
    BY <1>6 DEF GroupReturns, FindReturns, Leaf
  <2>2. D - 1 \in 1..D /\ E = D - 1 /\ ~Leaf(g) /\ (g.kind = "bean" => g.at > 1)
    BY <1>6, <2>1, CallerOf
  <2> QED
    BY <1>0, <2>1, <2>2
<1>7. CASE stack # << >> /\ Looks(f)
  <2>1. E = D /\ g.kind = "cond" /\ ret' = ret /\ ret = "none"
    BY <1>0, <1>7, Fields DEF Looks, Swapped, Answered
  <2> QED
    BY <2>1
<1> QED
  BY <1>1, <1>2, <1>3, <1>4, <1>5, <1>6, <1>7 DEF Move, MoveOf

LEMMA FoundIsActiveStep ==
    ASSUME Inv, Move
    PROVE  FoundIsActive'
<1> DEFINE D == Len(stack)
           f == Level(stack, D)
<1>0. /\ FoundIsActive /\ D \in Nat /\ Len(stack') \in Nat /\ LeafOps \cap GroupOps = {}
  BY Facts, Below DEF Inv, LeafOps, GroupOps
<1> SUFFICES ASSUME NEW n \in 1..Len(stack'), Leaf(Level(stack', n)),
                    NEW w \in Level(stack', n).found
             PROVE  w \in Level(stack', n).cond.sel /\ status'[w] = "resolved"
  BY DEF FoundIsActive
<1>1. ASSUME n \in 1..D, Level(stack', n) = Level(stack, n)
      PROVE  w \in Level(stack', n).cond.sel /\ status'[w] = "resolved"
  <2>1. w \in Level(stack, n).cond.sel /\ status[w] = "resolved" /\ w \in Bean
    BY <1>0, <1>1, Facts DEF FoundIsActive, Leaf
  <2> QED
    BY <1>1, <2>1, Decisions
<1>2. CASE n < D
  BY <1>0, <1>1, <1>2, Below
<1>3. CASE n >= D
  <2>1. CASE Rests
    BY <1>0, <1>1, <2>1 DEF Rests
  <2>2. CASE \E b \in Bean : Enters(b)
    BY <1>0, <1>1, <1>3, <2>2, Below, Fields DEF Enters, Pushed, SameUpTo, Leaf
  <2>3. ASSUME stack # << >>, NEW g, NEW c, Evaluates(f, g, c), ~Leaf(g) PROVE FALSE
    <3>1. Level(stack', D) = g
          /\ (Len(stack') > D => Level(stack', D + 1).found = {})
      BY <1>0, <2>3, Fields DEF Evaluates, Swapped, Called
    <3> QED
      BY <1>0, <1>3, <2>3, <3>1, Below
  <2>4. CASE stack # << >> /\ (Judges(f) \/ GroupAsks(f))
    BY <1>0, <2>3, <2>4, Fields DEF Judges, GroupAsks, Leaf
  <2>5. CASE stack # << >> /\ (Accepts(f) \/ Rejects(f) \/ GroupReturns(f) \/ FindReturns(f))
    BY <1>0, <1>3, <2>5 DEF Accepts, Rejects, GroupReturns, FindReturns, Popped
  <2>6. CASE stack # << >> /\ Looks(f)
    <3>1. n = D /\ n \in 1..D /\ Leaf(f) /\ f.at \in DOMAIN beans
          /\ Level(stack', D).cond = f.cond /\ status' = status
      BY <1>0, <1>3, <2>6, Fields DEF Looks, Swapped
    <3>2. CASE Level(stack', D).found = f.found
      BY <1>0, <3>1, <3>2 DEF FoundIsActive
    <3>3. CASE /\ Level(stack', D).found = f.found \cup {beans[f.at]}
               /\ ~Skipped(beans[f.at], f.cond) /\ status[beans[f.at]] # "default"
      <4>1. w \in f.found \/ w = beans[f.at]
        BY <3>1, <3>3
      <4>2. beans[f.at] \in f.cond.sel /\ status[beans[f.at]] = "resolved"
        BY <3>1, <3>3, Facts DEF Skipped, Status
      <4> QED
        BY <1>0, <3>1, <4>1, <4>2 DEF FoundIsActive
    <3> QED
      BY <2>6, <3>2, <3>3, Fields DEF Looks, Swapped
  <2> QED
    BY <2>1, <2>2, <2>4, <2>5, <2>6 DEF Move, MoveOf
<1> QED
  BY <1>0, <1>2, <1>3

LEMMA BackedStays ==
    ASSUME Inv, Move, NEW b, NEW c \in Cond, c.op \in LeafOps, Backed(status, b, c)
    PROVE  Backed(status', b, c)
<1>1. c.sel \in SUBSET Bean
  BY Ops
<1> QED
  BY <1>1, Decisions DEF Backed

\* What the condition before the one to be judged next has answered.
LEMMA BehindIsBacked ==
    ASSUME Inv, stack # << >>, NEW f, f = Level(stack, Len(stack)), f.kind = "bean",
           ret \notin {"false", "err"},
           NEW k \in DOMAIN Required[f.bean], k < f.at, Required[f.bean][k].op = "bean"
    PROVE  Backed(status, f.bean, Required[f.bean][k])
<1>1. /\ PassedIsBacked /\ AnswerIsBacked /\ Answered
      /\ Len(stack) \in 1..Len(stack) /\ f.at \in Nat \ {0} /\ f.bean \in Bean
      /\ k \in Nat \ {0} /\ ret \in Outcome \cup {"none"}
  BY Facts DEF Inv
<1>2. CASE k < f.at - 1
  BY <1>1, <1>2 DEF PassedIsBacked
<1>3. CASE k = f.at - 1
  <2>1. f.at # 1
    BY <1>1, <1>3
  <2>2. ret = "true"
    BY <1>1, <2>1 DEF Answered, Outcome
  <2> QED
    BY <1>1, <1>3, <2>2 DEF AnswerIsBacked
<1> QED
  BY <1>1, <1>2, <1>3

LEMMA PassedIsBackedStep ==
    ASSUME Inv, Move
    PROVE  PassedIsBacked'
<1> DEFINE D == Len(stack)
           f == Level(stack, D)
<1>0. /\ PassedIsBacked /\ D \in Nat /\ Len(stack') \in Nat /\ Required' = Required
  BY Facts, Below DEF Inv, Move
<1> SUFFICES ASSUME NEW n \in 1..Len(stack'), Level(stack', n).kind = "bean",
                    NEW k \in DOMAIN Required[Level(stack', n).bean],
                    k < Level(stack', n).at - 1,
                    Required[Level(stack', n).bean][k].op = "bean"
             PROVE  Backed(status', Level(stack', n).bean, Required[Level(stack', n).bean][k])
  BY <1>0 DEF PassedIsBacked
<1>1. ASSUME n \in 1..D, Level(stack', n) = Level(stack, n)
      PROVE  Backed(status', Level(stack', n).bean, Required[Level(stack', n).bean][k])
  <2>1. Backed(status, Level(stack, n).bean, Required[Level(stack, n).bean][k])
    BY <1>0, <1>1 DEF PassedIsBacked
  <2>2. Required[Level(stack, n).bean][k] \in Cond
    BY <1>1, Facts
  <2> QED
    BY <1>1, <2>1, <2>2, BackedStays DEF LeafOps
<1>2. CASE n < D
  BY <1>0, <1>1, <1>2, Below
<1>3. CASE n >= D
  <2>1. CASE Rests
    BY <1>0, <1>1, <2>1 DEF Rests
  <2>2. CASE \E b \in Bean : Enters(b)
    <3>1. \/ n \in 1..D /\ Level(stack', n) = Level(stack, n)
          \/ Level(stack', n).at = 1
      BY <1>0, <1>3, <2>2, Below, Fields DEF Enters, Pushed, SameUpTo
    <3>2. Level(stack', n).at # 1
      <4>1. Level(stack', n).bean \in Bean
        BY LevelTypes DEF Move
      <4> QED
        BY <4>1, Facts
    <3> QED
      BY <1>1, <3>1, <3>2
  <2>3. CASE stack # << >> /\ Judges(f)
    <3>1. /\ D \in 1..D /\ f.kind = "bean" /\ f.bean \in Bean /\ f.at \in Nat
          /\ ret \notin {"false", "err"} /\ status' = status
      BY <2>3, Facts DEF Judges, Evaluates
    <3>2. /\ Level(stack', D) = BeanFrameOf(f.bean, f.at + 1)
          /\ Len(stack') > D => Level(stack', D + 1).kind = "cond"
      BY <1>0, <2>3, Fields DEF Judges, Evaluates, Swapped, Called
    <3>3. n = D
      BY <1>0, <1>3, <3>2, Below
    <3>4. Level(stack', n).bean = f.bean /\ Level(stack', n).at = f.at + 1
      BY <3>2, <3>3, Fields
    <3>5. k < f.at
      BY <3>1, <3>4
    <3>6. Backed(status, f.bean, Required[f.bean][k])
      BY <2>3, <3>1, <3>4, <3>5, BehindIsBacked
    <3> QED
      BY <3>1, <3>4, <3>6
  <2>4. CASE stack # << >> /\ (Accepts(f) \/ Rejects(f) \/ GroupReturns(f) \/ FindReturns(f))
    BY <1>0, <1>3, <2>4 DEF Accepts, Rejects, GroupReturns, FindReturns, Popped
  <2>5. CASE stack # << >> /\ (GroupAsks(f) \/ Looks(f))
    <3>1. /\ Level(stack', D).kind = "cond"
          /\ Len(stack') > D => Level(stack', D + 1).kind = "cond"
      BY <1>0, <2>5, Fields DEF GroupAsks, Looks, Evaluates, Swapped, Called
    <3> QED
      BY <1>0, <1>3, <3>1, Below
  <2> QED
    BY <2>1, <2>2, <2>3, <2>4, <2>5 DEF Move, MoveOf
<1> QED
  BY <1>0, <1>2, <1>3

\* The answer of a Find about the definitions it has found.
LEMMA FindIsBacked ==
    ASSUME Inv, stack # << >>, NEW f, f = Level(stack, Len(stack)), FindReturns(f),
           NEW b \in Bean, status[b] = "resolving",
           \/ ret' = "true" /\ f.cond.op = "bean"
           \/ ret' = "false" /\ f.cond.op = "missing"
    PROVE  Backed(status', b, f.cond)
<1>1. FoundIsActive /\ Len(stack) \in 1..Len(stack) /\ Leaf(f) /\ status' = status
  BY Facts DEF Inv, FindReturns
<1>2. f.found # {}
  BY DEF FindReturns, Matched
<1>3. PICK w \in f.found : w \in f.cond.sel /\ status[w] = "resolved"
  BY <1>1, <1>2 DEF FoundIsActive
<1>4. w # b
  BY <1>3
<1> QED
  BY <1>1, <1>3, <1>4 DEF Backed

LEMMA AnswerIsBackedStep ==
    ASSUME Inv, Move
    PROVE  AnswerIsBacked'
<1> DEFINE D == Len(stack)
           E == Len(stack')
           f == Level(stack, D)
           g == Level(stack', E)
<1>0. /\ AnswerIsBacked /\ D \in Nat /\ (stack = << >> <=> D = 0)
      /\ E \in Nat /\ (stack' = << >> <=> E = 0) /\ Required' = Required
      /\ LeafOps \cap GroupOps = {} /\ {"bean", "missing"} \cap GroupOps = {}
  BY Facts, Below DEF Inv, Move, LeafOps, GroupOps
<1> SUFFICES ASSUME E # 0, g.kind = "bean",
                    NEW k \in DOMAIN Required[g.bean], k = g.at - 1,
                    \/ ret' = "true" /\ Required[g.bean][k].op = "bean"
                    \/ ret' = "false" /\ Required[g.bean][k].op = "missing"
             PROVE  Backed(status', g.bean, Required[g.bean][k])
  BY <1>0 DEF AnswerIsBacked
<1>1. CASE Rests
  BY <1>0, <1>1 DEF Rests, AnswerIsBacked
<1>2. CASE \E b \in Bean : Enters(b)
  BY <1>2 DEF Enters
<1>3. CASE stack # << >> /\ Judges(f)
  <2>1. /\ f.bean \in Bean /\ f.at \in Nat
        /\ Evaluates(f, BeanFrameOf(f.bean, f.at + 1), Required[f.bean][f.at])
    BY <1>0, <1>3, Facts DEF Judges
  <2>2. \/ g = BeanFrameOf(f.bean, f.at + 1) /\ Required[f.bean][f.at].op = "const"
        \/ g.kind = "cond"
    BY <2>1, Fields DEF Evaluates, Swapped, Called
  <2>3. g.bean = f.bean /\ k = f.at /\ Required[f.bean][f.at].op = "const"
    BY <2>1, <2>2, Fields
  <2> QED
    BY <2>3
<1>4. CASE stack # << >> /\ (GroupAsks(f) \/ Looks(f))
  BY <1>4, Fields DEF GroupAsks, Looks, Evaluates, Swapped, Called
<1>5. CASE stack # << >> /\ (Accepts(f) \/ Rejects(f))
  BY <1>5 DEF Accepts, Rejects
<1>6. CASE stack # << >> /\ (GroupReturns(f) \/ FindReturns(f))
  <2>1. f.kind = "cond" /\ Popped(stack, stack')
    BY <1>6 DEF GroupReturns, FindReturns, Leaf
  <2>2. /\ D - 1 \in 1..D /\ g = Level(stack, D - 1)
        /\ g.bean \in Bean /\ f.cond = Required[g.bean][k]
    BY <1>6, <2>1, CallerOf
  <2>3. CASE GroupReturns(f)
    BY <1>0, <2>2, <2>3 DEF GroupReturns
  <2>4. CASE FindReturns(f)
    <3>1. status[g.bean] = "resolving"
      BY <2>2 DEF Inv, BeansUnderWay
    <3> QED
      BY <1>6, <2>2, <2>4, <3>1, FindIsBacked
  <2> QED
    BY <1>6, <2>3, <2>4
<1> QED
  BY <1>1, <1>2, <1>3, <1>4, <1>5, <1>6 DEF Move, MoveOf

LEMMA DecisionsBackedStep ==
    ASSUME Inv, Move
    PROVE  DecisionsBacked'
<1> DEFINE f == Level(stack, Len(stack))
           Holds(st, b) ==
             /\ st[b] = "resolved" =>
                   \A i \in DOMAIN Required[b] :
                       Required[b][i].op = "bean" => Backed(st, b, Required[b][i])
             /\ (/\ st[b] = "deleted"
                 /\ \A i \in DOMAIN Required[b] : Required[b][i].op = "missing")
                => \E i \in DOMAIN Required[b] : Backed(st, b, Required[b][i])
<1>0. Required' = Required
  BY DEF Move
<1> SUFFICES ASSUME NEW b \in Bean PROVE Holds(status', b)
  BY <1>0 DEF DecisionsBacked
<1>1. Holds(status, b)
  BY DEF Inv, DecisionsBacked
<1>2. \A i \in DOMAIN Required[b] :
         /\ Required[b][i].op \in {"bean", "missing"}
         /\ Backed(status, b, Required[b][i])
         => Backed(status', b, Required[b][i])
  BY Facts, BackedStays DEF LeafOps
<1>3. CASE status'[b] = status[b]
  BY <1>1, <1>2, <1>3
<1>4. CASE status'[b] # status[b]
  <2>1. CASE \E x \in Bean : Enters(x)
    BY <1>4, <2>1, Facts DEF Enters
  <2>2. CASE stack # << >> /\ Accepts(f)
    <3>1. /\ b = f.bean /\ status'[b] = "resolved" /\ f.kind = "bean"
          /\ ret \notin {"false", "err"} /\ f.at \notin DOMAIN Required[f.bean]
      BY <1>4, <2>2, Facts DEF Accepts
    <3>2. \A i \in DOMAIN Required[b] : i < f.at
      <4>1. DOMAIN Required[b] = 1..Len(Required[b]) /\ Len(Required[b]) \in Nat
            /\ f.at \in Nat \ {0}
        BY <2>2, Facts
      <4> QED
        BY <3>1, <4>1
    <3>3. \A i \in DOMAIN Required[b] :
             Required[b][i].op = "bean" => Backed(status, b, Required[b][i])
      BY <2>2, <3>1, <3>2, BehindIsBacked
    <3> QED
      BY <1>2, <3>1, <3>3
  <2>3. CASE stack # << >> /\ Rejects(f)
    <3>1. /\ b = f.bean /\ status'[b] = "deleted" /\ f.kind = "bean" /\ ret = "false"
          /\ Len(stack) \in 1..Len(stack) /\ f.at \in Nat \ {0}
      BY <1>4, <2>3, Facts DEF Rejects
    <3>2. f.at # 1 /\ f.at <= Len(Required[b]) + 1 /\ AnswerIsBacked
      BY <2>3, <3>1 DEF Inv, Answered, BeansUnderWay
    <3>3. f.at - 1 \in DOMAIN Required[b]
      <4>1. DOMAIN Required[b] = 1..Len(Required[b]) /\ Len(Required[b]) \in Nat
        BY Facts
      <4> QED
        BY <3>1, <3>2, <4>1
    <3>4. Required[b][f.at - 1].op = "missing" => Backed(status, b, Required[b][f.at - 1])
      BY <2>3, <3>1, <3>2, <3>3 DEF AnswerIsBacked
    <3> QED
      BY <1>2, <3>1, <3>3, <3>4
  <2>4. CASE \/ Rests
             \/ /\ stack # << >>
                /\ Judges(f) \/ GroupAsks(f) \/ GroupReturns(f) \/ Looks(f) \/ FindReturns(f)
    BY <1>4, <2>4 DEF Rests, Judges, GroupAsks, GroupReturns, Looks, FindReturns, Evaluates
  <2> QED
    BY <2>1, <2>2, <2>3, <2>4 DEF Move, MoveOf
<1> QED
  BY <1>3, <1>4
-----------------------------------------------------------------------------
(* Every move preserves the invariant: definitions that yield to each other. *)

LEMMA RivalFacts ==
    ASSUME Inv, NEW S \in SUBSET Bean
    PROVE  /\ \A b : b \in Rivals(beans, S) <=> b \in S /\ b \in ToSet(beans)
           /\ \A b \in Rivals(beans, S) : b \in Bean /\ \E k \in DOMAIN beans : beans[k] = b
BY Facts DEF Rivals

LEMMA MissingFacts ==
    ASSUME NEW S
    PROVE  /\ Len(Missing(S)) = 1 /\ DOMAIN Missing(S) = {1}
           /\ Missing(S)[1] = [op |-> "missing", sel |-> S]
           /\ Missing(S)[1].op = "missing" /\ Missing(S)[1].sel = S
BY DEF Missing

\* The Find that is called for one of them asks about all of them.
LEMMA AskingFind ==
    ASSUME Inv, NEW S \in SUBSET Bean, Competing(beans, Required, S),
           NEW n \in 1..Len(stack), Asking(stack, n, S)
    PROVE  /\ Leaf(Level(stack, n))
           /\ Level(stack, n).cond.op = "missing" /\ Level(stack, n).cond.sel = S
<1> DEFINE b == Level(stack, n - 1).bean
           i == Level(stack, n - 1).at
<1>1. /\ ConditionsAsked /\ BeansUnderWay /\ n - 1 \in 1..Len(stack)
      /\ Level(stack, n).kind = "cond" /\ Level(stack, n - 1).kind = "bean" /\ b \in S
  BY Facts DEF Inv, Asking
<1>2. b \in ToSet(beans) /\ i <= Len(Required[b]) + 1 /\ i \in Nat
  BY <1>1, Facts DEF BeansUnderWay
<1>3. i > 1 /\ Level(stack, n).cond = Required[b][i - 1]
  BY <1>1 DEF ConditionsAsked
<1>4. Required[b] = Missing(S)
  BY <1>1, <1>2, RivalFacts DEF Competing
<1>5. /\ Len(Missing(S)) = 1 /\ DOMAIN Missing(S) = {1}
      /\ Missing(S)[1].op = "missing" /\ Missing(S)[1].sel = S
  BY MissingFacts
<1>6. i - 1 = 1
  BY <1>2, <1>3, <1>4, <1>5
<1>7. Level(stack, n).cond = Missing(S)[1]
  BY <1>3, <1>4, <1>6
<1> QED
  BY <1>1, <1>5, <1>7 DEF Leaf, LeafOps

LEMMA NewlyResolved ==
    ASSUME Inv, Move, NEW b \in Bean, status'[b] = "resolved", status[b] # "resolved"
    PROVE  /\ stack # << >> /\ Accepts(Level(stack, Len(stack)))
           /\ b = Level(stack, Len(stack)).bean
<1> DEFINE f == Level(stack, Len(stack))
<1>1. CASE \E x \in Bean : Enters(x)
  BY <1>1, Facts DEF Enters
<1>2. CASE stack # << >> /\ Accepts(f)
  BY <1>2, Facts DEF Accepts
<1>3. CASE stack # << >> /\ Rejects(f)
  BY <1>3, Facts DEF Rejects
<1>4. CASE \/ Rests
           \/ /\ stack # << >>
              /\ Judges(f) \/ GroupAsks(f) \/ GroupReturns(f) \/ Looks(f) \/ FindReturns(f)
  BY <1>4 DEF Rests, Judges, GroupAsks, GroupReturns, Looks, FindReturns, Evaluates
<1> QED
  BY <1>1, <1>2, <1>3, <1>4 DEF Move, MoveOf

LEMMA TakenStays ==
    ASSUME Inv, Move, NEW S \in SUBSET Bean, Taken(beans, status, S)
    PROVE  Taken(beans, status', S)
BY Decisions, RivalFacts DEF Taken

LEMMA NewlyTaken ==
    ASSUME Inv, Move, NEW S \in SUBSET Bean,
           Taken(beans, status', S), ~Taken(beans, status, S)
    PROVE  /\ stack # << >> /\ Accepts(Level(stack, Len(stack)))
           /\ Level(stack, Len(stack)).bean \in Rivals(beans, S)
BY NewlyResolved, RivalFacts DEF Taken

\* A Find for one of them was there before, has looked at one more definition,
\* or begins.
LEMMA AskedBefore ==
    ASSUME Inv, Move, NEW S \in SUBSET Bean, Competing(beans, Required, S),
           NEW n \in 1..Len(stack'), Asking(stack', n, S)
    PROVE  \/ n \in 1..Len(stack) /\ Asking(stack, n, S) /\ Level(stack', n) = Level(stack, n)
           \/ /\ stack # << >> /\ n = Len(stack) /\ n \in 1..Len(stack)
              /\ Asking(stack, n, S) /\ Looks(Level(stack, Len(stack)))
           \/ Level(stack', n).at = 1
<1> DEFINE D == Len(stack)
           f == Level(stack, D)
<1>0. /\ D \in Nat /\ Len(stack') \in Nat /\ n > 1 /\ n \in Nat
      /\ Level(stack', n).kind = "cond" /\ Level(stack', n - 1).kind = "bean"
      /\ Level(stack', n - 1).bean \in S /\ LeafOps \cap GroupOps = {}
  BY Facts, Below DEF Asking, LeafOps, GroupOps
<1>1. ASSUME n <= D, Level(stack, n).kind = "cond" PROVE n \in 1..D /\ Asking(stack, n, S)
  BY <1>0, <1>1, Below DEF Asking
<1>2. CASE n < D
  <2>1. Level(stack', n) = Level(stack, n)
    BY <1>0, <1>2, Below
  <2> QED
    BY <1>0, <1>1, <1>2, <2>1
<1>3. CASE n >= D
  <2>1. CASE Rests
    BY <1>0, <2>1 DEF Rests
  <2>2. ASSUME NEW b \in Bean, Enters(b)
        PROVE  n \in 1..Len(stack) /\ Asking(stack, n, S) /\ Level(stack', n) = Level(stack, n)
    <3>1. /\ Len(stack') = D + 1 /\ Level(stack', D + 1).kind = "bean"
          /\ \A m \in 1..D : Level(stack', m) = Level(stack, m)
      BY <2>2, Fields DEF Enters, Pushed, SameUpTo
    <3>2. n = D /\ n \in 1..D /\ Level(stack', n) = Level(stack, n)
      BY <1>0, <1>3, <3>1
    <3> QED
      BY <1>0, <1>1, <3>2
  <2>3. CASE stack # << >> /\ Judges(f)
    <3>1. /\ Level(stack', D).kind = "bean"
          /\ Len(stack') > D => Len(stack') = D + 1 /\ Level(stack', D + 1).at = 1
      BY <1>0, <2>3, Fields DEF Judges, Evaluates, Swapped, Called
    <3> QED
      BY <1>0, <1>3, <3>1
  <2>4. CASE stack # << >> /\ GroupAsks(f)
    <3>1. /\ Level(stack', D).kind = "cond" /\ f.kind = "cond" /\ f.cond.op \in GroupOps
          /\ Len(stack') > D => Len(stack') = D + 1
      BY <1>0, <2>4, Fields DEF GroupAsks, Evaluates, Swapped, Called
    <3>2. n = D
      BY <1>0, <1>3, <3>1
    <3>3. Leaf(f)
      BY <1>0, <1>1, <3>1, <3>2, AskingFind
    <3> QED
      BY <1>0, <3>1, <3>3 DEF Leaf
  <2>5. CASE stack # << >> /\ (Accepts(f) \/ Rejects(f) \/ GroupReturns(f) \/ FindReturns(f))
    BY <1>0, <1>3, <2>5 DEF Accepts, Rejects, GroupReturns, FindReturns, Popped
  <2>6. CASE stack # << >> /\ Looks(f)
    <3>1. n = D /\ f.kind = "cond"
      BY <1>0, <1>3, <2>6 DEF Looks, Swapped, Leaf
    <3> QED
      BY <1>0, <1>1, <2>6, <3>1
  <2> QED
    BY <2>1, <2>2, <2>3, <2>4, <2>5, <2>6 DEF Move, MoveOf
<1> QED
  BY <1>0, <1>2, <1>3

\* What a Find that looks at the definition b is left with.
LEMMA Looked ==
    ASSUME Inv, Move, stack # << >>, NEW f, f = Level(stack, Len(stack)), Looks(f)
    PROVE  /\ Level(stack', Len(stack)).at = f.at + 1 /\ f.kind = "cond"
           /\ f.at \in DOMAIN beans /\ status' = status
           /\ f.found \subseteq Level(stack', Len(stack)).found
           /\ ~Skipped(beans[f.at], f.cond) =>
                 /\ beans[f.at] \in Level(stack', Len(stack)).found
                 /\ status[beans[f.at]] = "resolved"
BY Facts, Fields DEF Looks, Swapped, Leaf, Skipped, Status

LEMMA NoneTakenStep ==
    ASSUME Inv, Move, phase = "resolve"
    PROVE  NoneTaken'
<1> DEFINE D == Len(stack)
           f == Level(stack, D)
<1>0. /\ Required' = Required /\ beans' = beans
      /\ NoneTaken /\ DecisionsBacked /\ HasCall /\ D \in Nat
      /\ \A b \in Bean : status[b] # "default" => b \in ToSet(beans)
  BY Facts DEF Inv, Move, Outside
<1> SUFFICES ASSUME NEW S \in SUBSET Bean, Competing(beans, Required, S),
                    ~Taken(beans, status', S),
                    NEW n \in 1..Len(stack'), Asking(stack', n, S),
                    NEW k \in DOMAIN beans, k < Level(stack', n).at, beans[k] \in S
             PROVE  \E m \in 1..(n - 1) :
                       Level(stack', m).kind = "bean" /\ Level(stack', m).bean = beans[k]
  BY <1>0 DEF NoneTaken
<1>1. ~Taken(beans, status, S)
  BY TakenStays
<1>2. ASSUME n \in 1..D,
             \E m \in 1..(n - 1) :
                 Level(stack, m).kind = "bean" /\ Level(stack, m).bean = beans[k]
      PROVE  \E m \in 1..(n - 1) :
                 Level(stack', m).kind = "bean" /\ Level(stack', m).bean = beans[k]
  <2>1. PICK m \in 1..(n - 1) : Level(stack, m).kind = "bean" /\ Level(stack, m).bean = beans[k]
    BY <1>2
  <2>2. Level(stack', m) = Level(stack, m)
    BY <1>0, <1>2, <2>1, Below
  <2> QED
    BY <2>1, <2>2
<1>3. CASE n \in 1..D /\ Asking(stack, n, S) /\ k < Level(stack, n).at
  BY <1>0, <1>1, <1>2, <1>3 DEF NoneTaken
<1>4. CASE /\ stack # << >> /\ n = D /\ n \in 1..D /\ Asking(stack, n, S)
           /\ Looks(f) /\ k = f.at
  <2> DEFINE b == beans[k]
  <2>1. /\ b \in Bean /\ b \in S /\ b \in Rivals(beans, S) /\ f.cond.sel = S
    BY <1>4, Facts, RivalFacts, AskingFind
  <2>2. status[b] # "resolved"
    BY <1>1, <2>1 DEF Taken
  <2>3. status[b] \in {"resolving", "deleted"}
    BY <1>4, <2>1, <2>2, Looked DEF Skipped
  <2>4. status[b] # "deleted"
    <3>1. Required[b] = Missing(S)
      BY <2>1 DEF Competing
    <3>2. ASSUME status[b] = "deleted" PROVE FALSE
      <4>0. /\ Len(Missing(S)) = 1 /\ DOMAIN Missing(S) = {1}
            /\ Missing(S)[1].op = "missing" /\ Missing(S)[1].sel = S
        BY MissingFacts
      <4>1. Backed(status, b, Missing(S)[1])
        BY <1>0, <2>1, <3>1, <3>2, <4>0 DEF DecisionsBacked
      <4>2. PICK w \in S : status[w] = "resolved"
        BY <4>0, <4>1 DEF Backed
      <4>3. w \in Rivals(beans, S)
        BY <1>0, <4>2, RivalFacts
      <4> QED
        BY <1>1, <4>2, <4>3 DEF Taken
    <3> QED
      BY <3>2
  <2>5. PICK m \in 1..D : Level(stack, m).kind = "bean" /\ Level(stack, m).bean = b
    BY <1>0, <2>1, <2>3, <2>4 DEF HasCall
  <2>6. m # D
    BY <1>4, <2>5, Looked
  <2>7. m \in 1..(n - 1)
    BY <1>0, <1>4, <2>5, <2>6
  <2> QED
    BY <1>2, <1>4, <2>5, <2>7
<1>5. CASE Level(stack', n).at = 1
  BY <1>5, Facts
<1>6. ASSUME stack # << >>, n = D, n \in 1..D, Asking(stack, n, S), Looks(f)
      PROVE  k < Level(stack, n).at \/ k = f.at
  <2>1. Level(stack', n).at = f.at + 1 /\ f.at \in Nat /\ k \in Nat
    BY <1>6, Facts, Looked
  <2> QED
    BY <1>6, <2>1
<1> QED
  BY <1>3, <1>4, <1>5, <1>6, AskedBefore

LEMMA OneTakenStep ==
    ASSUME Inv, Move
    PROVE  OneTaken'
<1> DEFINE D == Len(stack)
           f == Level(stack, D)
<1>0. /\ Required' = Required /\ beans' = beans
      /\ NoneTaken /\ OneTaken /\ ResolvedOnce /\ D \in Nat
  BY Facts DEF Inv, Move
<1> SUFFICES ASSUME NEW S \in SUBSET Bean, Competing(beans, Required, S),
                    Taken(beans, status', S),
                    NEW n \in 1..Len(stack'), Asking(stack', n, S)
             PROVE  \/ Level(stack', n).found # {}
                    \/ \E k \in DOMAIN beans :
                          /\ k >= Level(stack', n).at
                          /\ beans[k] \in S /\ status'[beans[k]] = "resolved"
  BY <1>0 DEF OneTaken
<1>1. CASE Level(stack', n).at = 1
  <2>1. PICK w \in Rivals(beans, S) : status'[w] = "resolved"
    BY DEF Taken
  <2>2. PICK k \in DOMAIN beans : beans[k] = w
    BY RivalFacts
  <2>3. k >= 1 /\ beans[k] \in S
    <3>1. k \in 1..Len(beans) /\ Len(beans) \in Nat
      BY Facts
    <3>2. w \in S
      BY RivalFacts
    <3> QED
      BY <2>2, <3>1, <3>2
  <2> QED
    BY <1>1, <2>1, <2>2, <2>3
<1>2. CASE Taken(beans, status, S)
  <2>1. ASSUME NEW k \in DOMAIN beans, status[beans[k]] = "resolved"
        PROVE  status'[beans[k]] = "resolved"
    BY <2>1, Facts, Decisions
  <2>2. ASSUME n \in 1..D, Asking(stack, n, S)
        PROVE  \/ Level(stack, n).found # {}
               \/ \E k \in DOMAIN beans :
                     /\ k >= Level(stack, n).at
                     /\ beans[k] \in S /\ status[beans[k]] = "resolved"
    BY <1>0, <1>2, <2>2 DEF OneTaken
  <2>3. CASE n \in 1..D /\ Asking(stack, n, S) /\ Level(stack', n) = Level(stack, n)
    BY <2>1, <2>2, <2>3
  <2>4. CASE stack # << >> /\ n = D /\ n \in 1..D /\ Asking(stack, n, S) /\ Looks(f)
    <3>1. CASE f.found # {}
      BY <2>4, <3>1, Looked
    <3>2. ASSUME NEW k \in DOMAIN beans, k >= f.at, beans[k] \in S,
                 status[beans[k]] = "resolved"
          PROVE  \/ Level(stack', n).found # {}
                 \/ k >= Level(stack', n).at /\ status'[beans[k]] = "resolved"
      <4>1. CASE k = f.at
        <5>1. ~Skipped(beans[f.at], f.cond)
          BY <2>4, <3>2, <4>1, AskingFind DEF Skipped
        <5> QED
          BY <2>4, <5>1, Looked
      <4>2. CASE k # f.at
        <5>1. k \in Nat /\ f.at \in Nat /\ Level(stack', n).at = f.at + 1
          BY <2>4, Facts, Looked
        <5> QED
          BY <2>1, <3>2, <4>2, <5>1
      <4> QED
        BY <4>1, <4>2
    <3> QED
      BY <2>2, <2>4, <3>1, <3>2
  <2> QED
    BY <1>1, <2>3, <2>4, AskedBefore
<1>3. CASE ~Taken(beans, status, S)
  <2>1. stack # << >> /\ Accepts(f) /\ f.bean \in Rivals(beans, S) /\ f.kind = "bean"
    BY <1>3, NewlyTaken DEF Accepts
  <2>2. n \in 1..(D - 1) /\ status'[f.bean] = "resolved"
    BY <1>0, <2>1, Facts, RivalFacts DEF Accepts, Popped
  <2>3. CASE n \in 1..D /\ Asking(stack, n, S) /\ Level(stack', n) = Level(stack, n)
    <3>1. PICK k \in DOMAIN beans : beans[k] = f.bean
      BY <2>1, RivalFacts
    <3>2. beans[k] \in S
      BY <2>1, <3>1, RivalFacts
    <3>3. ASSUME k < Level(stack, n).at PROVE FALSE
      <4>1. PICK m \in 1..(n - 1) :
                Level(stack, m).kind = "bean" /\ Level(stack, m).bean = f.bean
        BY <1>0, <1>3, <2>3, <3>1, <3>2, <3>3 DEF NoneTaken
      <4>2. m \in 1..D /\ D \in 1..D /\ m # D
        BY <1>0, <2>2, <4>1
      <4> QED
        BY <1>0, <2>1, <4>1, <4>2 DEF ResolvedOnce
    <3>4. k >= Level(stack, n).at
      BY <2>3, <3>3, Facts
    <3> QED
      BY <2>2, <2>3, <3>1, <3>2, <3>4
  <2>4. CASE stack # << >> /\ Looks(f)
    BY <2>1, <2>4 DEF Looks, Leaf
  <2> QED
    BY <1>1, <2>3, <2>4, AskedBefore
<1> QED
  BY <1>2, <1>3

LEMMA MayTakeStep ==
    ASSUME Inv, Move
    PROVE  MayTake'
<1> DEFINE D == Len(stack)
           E == Len(stack')
           f == Level(stack, D)
           g == Level(stack', E)
<1>0. /\ Required' = Required /\ beans' = beans /\ OneTaken /\ MayTake
      /\ D \in Nat /\ (stack = << >> <=> D = 0) /\ "missing" \notin GroupOps
  BY Facts DEF Inv, Move, GroupOps
<1> SUFFICES ASSUME NEW S \in SUBSET Bean, Competing(beans, Required, S),
                    stack' # << >>, g.kind = "bean", g.bean \in S, ret' = "true",
                    Taken(beans, status', S)
             PROVE  FALSE
  BY <1>0 DEF MayTake
<1>1. CASE Rests
  BY <1>0, <1>1 DEF Rests, MayTake
<1>2. CASE \E b \in Bean : Enters(b)
  BY <1>2 DEF Enters
<1>3. CASE stack # << >> /\ Judges(f)
  <2>1. /\ f.bean \in Bean /\ f.bean \in ToSet(beans)
        /\ f.at \in DOMAIN Required[f.bean]
        /\ Evaluates(f, BeanFrameOf(f.bean, f.at + 1), Required[f.bean][f.at])
    BY <1>0, <1>3, Facts DEF Judges, Inv, BeansUnderWay
  <2>2. \/ g = BeanFrameOf(f.bean, f.at + 1) /\ Required[f.bean][f.at].op = "const"
        \/ g.kind = "cond"
    BY <2>1, Fields DEF Evaluates, Swapped, Called
  <2>3. f.bean \in S /\ Required[f.bean][f.at].op = "const"
    BY <2>2, Fields
  <2>4. Required[f.bean] = Missing(S)
    BY <2>1, <2>3, RivalFacts DEF Competing
  <2>5. DOMAIN Missing(S) = {1} /\ Missing(S)[1].op = "missing"
    BY MissingFacts
  <2> QED
    BY <2>1, <2>3, <2>4, <2>5
<1>4. CASE stack # << >> /\ (GroupAsks(f) \/ Looks(f))
  BY <1>4, Fields DEF GroupAsks, Looks, Evaluates, Swapped, Called
<1>5. CASE stack # << >> /\ (Accepts(f) \/ Rejects(f))
  BY <1>5 DEF Accepts, Rejects
<1>6. CASE stack # << >> /\ (GroupReturns(f) \/ FindReturns(f))
  <2>1. f.kind = "cond" /\ Popped(stack, stack') /\ status' = status
    BY <1>6 DEF GroupReturns, FindReturns, Leaf
  <2>2. D - 1 \in 1..D /\ g = Level(stack, D - 1)
    BY <1>6, <2>1, CallerOf
  <2>3. D \in 1..D /\ Asking(stack, D, S)
    BY <1>0, <2>1, <2>2 DEF Asking
  <2>4. f.cond.op = "missing"
    BY <2>3, AskingFind
  <2>5. CASE GroupReturns(f)
    BY <1>0, <2>4, <2>5 DEF GroupReturns
  <2>6. CASE FindReturns(f)
    <3>1. f.found = {} /\ f.at \notin DOMAIN beans
      BY <2>4, <2>6 DEF FindReturns, Matched
    <3>2. PICK k \in DOMAIN beans : k >= f.at
      BY <1>0, <2>1, <2>3, <3>1 DEF OneTaken
    <3>3. /\ k \in 1..Len(beans) /\ DOMAIN beans = 1..Len(beans) /\ Len(beans) \in Nat
          /\ f.at \in Nat \ {0}
      BY <2>3, <3>2, Facts
    <3> QED
      BY <3>1, <3>2, <3>3
  <2> QED
    BY <1>6, <2>5, <2>6
<1> QED
  BY <1>1, <1>2, <1>3, <1>4, <1>5, <1>6 DEF Move, MoveOf

LEMMA TakenOnceStep ==
    ASSUME Inv, Move
    PROVE  TakenOnce'
<1> DEFINE f == Level(stack, Len(stack))
<1>0. /\ Required' = Required /\ beans' = beans /\ TakenOnce /\ MayTake /\ Answered
  BY DEF Inv, Move
<1>1. ASSUME NEW S \in SUBSET Bean, Competing(beans, Required, S),
             NEW x \in Rivals(beans, S), NEW y \in Rivals(beans, S),
             status'[x] = "resolved", status'[y] = "resolved", status[x] # "resolved"
      PROVE  x = y
  <2>1. x \in Bean /\ y \in Bean
    BY RivalFacts
  <2>2. stack # << >> /\ Accepts(f) /\ x = f.bean
    BY <1>1, <2>1, NewlyResolved
  <2>3. f.kind = "bean" /\ Required[x] = Missing(S) /\ ret \notin {"false", "err"} /\ f.at # 1
    <3>1. DOMAIN Missing(S) = {1}
      BY MissingFacts
    <3> QED
      BY <1>1, <2>2, <3>1 DEF Accepts, Competing
  <2>4. ret = "true"
    BY <1>0, <2>2, <2>3, Facts DEF Answered, Outcome
  <2>5. ~Taken(beans, status, S)
    BY <1>0, <1>1, <2>2, <2>3, <2>4, RivalFacts DEF MayTake
  <2>6. status[y] # "resolved"
    BY <2>5 DEF Taken
  <2> QED
    BY <1>1, <2>1, <2>2, <2>6, NewlyResolved
<1> SUFFICES ASSUME NEW S \in SUBSET Bean, Competing(beans, Required, S),
                    NEW x \in Rivals(beans, S), NEW y \in Rivals(beans, S),
                    status'[x] = "resolved", status'[y] = "resolved"
             PROVE  x = y
  BY <1>0 DEF TakenOnce
<1>2. CASE status[x] = "resolved" /\ status[y] = "resolved"
  BY <1>0, <1>2 DEF TakenOnce
<1> QED
  BY <1>1, <1>2
-----------------------------------------------------------------------------
(* Every step preserves the invariant.                                      *)

LEMMA OutsideStep ==
    ASSUME Inv, [Next]_vars, phase = "resolve", phase' = "resolve"
    PROVE  Outside'
<1>0. Move /\ Outside
  BY Moves DEF Inv
<1>1. beans' = beans /\ \A b \in Bean : status'[b] # "default" => b \in ToSet(beans)
  BY <1>0, Decisions DEF Move
<1>2. ASSUME NEW k \in DOMAIN beans, k < pos' PROVE status'[beans[k]] # "default"
  <2>1. CASE k < pos
    BY <1>0, <2>1, Decisions, Facts DEF Outside
  <2>2. CASE ~(k < pos)
    <3>1. ASSUME pos' = pos PROVE FALSE
      BY <1>2, <2>2, <3>1
    <3>2. ResolveNext
      BY <3>1
      DEF Next, Step, Terminated, Provide, Refresh, ApplyModule, ScanConfigurations, MatchNext,
          Accept, Reject, GroupStep, FindStep, FindReturn, Abort, CheckDuplicateBeans, vars
    <3>3. pos' = pos + 1 /\ pos \in Nat /\ k \in Nat
      BY <3>2, Facts DEF ResolveNext, Inv, TypeOK
    <3>4. k = pos
      BY <1>2, <2>2, <3>3
    <3> QED
      BY <3>2, <3>4, Facts DEF ResolveNext, EnterBean
  <2> QED
    BY <2>1, <2>2
<1> QED
  BY <1>1, <1>2 DEF Outside

\* The steps of the other phases: no function is called, nothing is decided.
LEMMA Elsewhere ==
    ASSUME Inv, [Next]_vars, ~(phase = "resolve" /\ phase' = "resolve")
    PROVE  /\ stack' = << >> /\ ret' = "none" /\ status' = status /\ Required' = Required
           /\ beans' = beans \/ \A b \in Bean : status[b] = "default"
           /\ phase' \in {"provide", "modules"} => \A b \in Bean : status[b] = "default"
           /\ phase' = "resolve" => pos' = 1 /\ \A b \in Bean : status[b] = "default"
           /\ phase' = "done" =>
                 pos' = pos /\ beans' = beans /\ pos \notin DOMAIN beans
                 /\ phase \in {"resolve", "done"} /\ stack = << >>
<1>0. /\ Outside /\ Answered /\ program' = program => Required' = Required
  BY SameProgram DEF Required
<1>1. Outside /\ Answered
  BY DEF Inv
<1>2. CASE phase # "resolve"
  <2>1. stack = << >> /\ ret = "none"
    BY <1>1, <1>2 DEF Outside, Answered
  <2>2. CASE (\E b \in Bean : Provide(b)) \/ Refresh \/ ApplyModule \/ ScanConfigurations
    BY <1>0, <1>1, <2>1, <2>2
    DEF Provide, Refresh, ApplyModule, ScanConfigurations, Outside
  <2>3. CASE UNCHANGED vars
    BY <1>0, <1>1, <1>2, <2>1, <2>3 DEF vars, Outside
  <2> QED
    BY <1>2, <2>2, <2>3
    DEF Next, Step, Terminated, ResolveNext, MatchNext, Accept, Reject, GroupStep, FindStep,
        FindReturn, Abort, CheckDuplicateBeans, InBean, InCond
<1>3. CASE phase = "resolve"
  <2>1. CASE Abort
    BY <1>0, <1>1, <2>1 DEF Abort
  <2>2. CASE CheckDuplicateBeans
    BY <1>0, <1>1, <2>2 DEF CheckDuplicateBeans, Answered
  <2> QED
    BY <1>3, <2>1, <2>2
    DEF Next, Step, Terminated, Provide, Refresh, ApplyModule, ScanConfigurations, ResolveNext,
        MatchNext, Accept, Reject, GroupStep, FindStep, FindReturn, vars
<1> QED
  BY <1>2, <1>3

LEMMA InvStep ==
    ASSUME Inv, [Next]_vars
    PROVE  Inv'
<1>1. TypeOK'
  BY TypeStep DEF Inv
<1>2. CASE phase = "resolve" /\ phase' = "resolve"
  <2>1. Move /\ Outside'
    BY <1>2, Moves, OutsideStep
  <2>2. BeansUnderWay' /\ ConditionsAsked' /\ ResolvedOnce' /\ HasCall' /\ Answered'
    BY <1>2, <2>1, BeansUnderWayStep, ConditionsAskedStep, ResolvedOnceStep, HasCallStep,
       AnsweredStep
  <2>3. FoundIsActive' /\ PassedIsBacked' /\ AnswerIsBacked' /\ DecisionsBacked'
    BY <2>1, FoundIsActiveStep, PassedIsBackedStep, AnswerIsBackedStep, DecisionsBackedStep
  <2>4. NoneTaken' /\ OneTaken' /\ MayTake' /\ TakenOnce'
    BY <1>2, <2>1, NoneTakenStep, OneTakenStep, MayTakeStep, TakenOnceStep
  <2> QED
    BY <1>1, <2>1, <2>2, <2>3, <2>4 DEF Inv
<1>3. CASE ~(phase = "resolve" /\ phase' = "resolve")
  <2>1. /\ stack' = << >> /\ ret' = "none" /\ status' = status /\ Required' = Required
        /\ beans' = beans \/ \A b \in Bean : status[b] = "default"
        /\ phase' \in {"provide", "modules"} => \A b \in Bean : status[b] = "default"
        /\ phase' = "resolve" => pos' = 1 /\ \A b \in Bean : status[b] = "default"
        /\ phase' = "done" =>
              pos' = pos /\ beans' = beans /\ pos \notin DOMAIN beans
              /\ phase \in {"resolve", "done"} /\ stack = << >>
    BY <1>3, Elsewhere
  <2>2. Len(stack') = 0 /\ 1..Len(stack') = {}
    BY <2>1
  <2>3. BeansUnderWay' /\ ConditionsAsked' /\ ResolvedOnce' /\ FoundIsActive' /\ PassedIsBacked'
    BY <2>2
    DEF BeansUnderWay, ConditionsAsked, ResolvedOnce, FoundIsActive, PassedIsBacked
  <2>4. Answered' /\ AnswerIsBacked' /\ MayTake'
    BY <2>1 DEF Answered, AnswerIsBacked, MayTake
  <2>5. NoneTaken' /\ OneTaken'
    BY <2>2 DEF NoneTaken, OneTaken
  <2>6. DecisionsBacked'
    BY <2>1 DEF Inv, DecisionsBacked
  <2>7. HasCall'
    <3>1. ASSUME NEW b \in Bean, phase' \in {"resolve", "done"}, status'[b] = "resolving"
          PROVE  FALSE
      <4>1. phase' = "done" /\ phase \in {"resolve", "done"} /\ stack = << >> /\ HasCall
            /\ status[b] = "resolving"
        BY <2>1, <3>1 DEF Inv
      <4> QED
        BY <4>1, Facts DEF HasCall
    <3> QED
      BY <3>1 DEF HasCall
  <2>8. TakenOnce'
    <3>1. CASE beans' = beans
      BY <2>1, <3>1 DEF Inv, TakenOnce
    <3>2. CASE \A b \in Bean : status[b] = "default"
      <4>1. \A S \in SUBSET Bean : Rivals(beans', S) \subseteq Bean
        BY DEF Rivals
      <4> QED
        BY <2>1, <3>2, <4>1 DEF TakenOnce
    <3> QED
      BY <2>1, <3>1, <3>2
  <2>9. Outside'
    <3>0. Outside
      BY DEF Inv
    <3>1. \A b \in Bean : status'[b] # "default" => b \in ToSet(beans')
      BY <2>1, <3>0 DEF Outside
    <3>2. phase' = "resolve" => \A k \in DOMAIN beans' : ~(k < pos')
      <4>1. beans' \in Seq(Bean)
        BY <1>1 DEF TypeOK
      <4> QED
        BY <2>1, <4>1
    <3>3. phase' = "done" =>
             /\ \A k \in DOMAIN beans' : k < pos' => status'[beans'[k]] # "default"
             /\ pos' \notin DOMAIN beans'
      BY <2>1, <3>0 DEF Outside
    <3> QED
      BY <2>1, <3>1, <3>2, <3>3 DEF Outside
  <2> QED
    BY <1>1, <2>3, <2>4, <2>5, <2>6, <2>7, <2>8, <2>9 DEF Inv
<1> QED
  BY <1>2, <1>3

LEMMA InvInit ==
    ASSUME Init
    PROVE  Inv
<1>1. TypeOK
  BY ProgramAssumption DEF Init, TypeOK, Phase, Status
<1>2. /\ stack = << >> /\ ret = "none" /\ phase = "provide" /\ Len(stack) = 0
      /\ \A b \in Bean : status[b] = "default"
  BY DEF Init
<1>3. Outside /\ BeansUnderWay /\ ConditionsAsked /\ ResolvedOnce /\ HasCall /\ Answered
  BY <1>2
  DEF Outside, BeansUnderWay, ConditionsAsked, ResolvedOnce, HasCall, Answered
<1>4. FoundIsActive /\ PassedIsBacked /\ AnswerIsBacked /\ DecisionsBacked
  BY <1>2 DEF FoundIsActive, PassedIsBacked, AnswerIsBacked, DecisionsBacked
<1>5. \A S \in SUBSET Bean : Rivals(beans, S) \subseteq Bean
  BY DEF Rivals
<1>6. NoneTaken /\ OneTaken /\ MayTake /\ TakenOnce
  BY <1>2, <1>5 DEF NoneTaken, OneTaken, MayTake, TakenOnce
<1> QED
  BY <1>1, <1>3, <1>4, <1>6 DEF Inv

LEMMA Invariance == Spec => []Inv
<1>1. Init => Inv
  BY InvInit
<1>2. Inv /\ [Next]_vars => Inv'
  BY InvStep
<1> QED
  BY <1>1, <1>2, PTL DEF Spec

-----------------------------------------------------------------------------
(* The properties.                                                          *)

\* However conditions refer to each other, in cycles too, no decision outlives
\* its evidence: an OnBean that held keeps a witness, another definition that
\* is active for good, and a definition with nothing but OnMissingBean is
\* deleted for such a witness only.
THEOREM Witnesses == Spec => []DecisionsAreWitnessed
<1>1. Inv => DecisionsAreWitnessed
  <2> SUFFICES ASSUME Inv PROVE DecisionsAreWitnessed
    OBVIOUS
  <2>1. DecisionsBacked /\ \A b \in Bean : Required[b] = Conditions(b)
    BY DEF Inv, Required
  <2>2. \A b, c : Backed(status, b, c) <=> Witnessed(b, c)
    BY DEF Backed, Witnessed
  <2> HIDE DEF Inv
  <2> QED
    BY <2>1, <2>2 DEF DecisionsBacked, DecisionsAreWitnessed
<1> QED
  BY <1>1, Invariance, PTL

\* When Refresh has succeeded, every definition of the list has a decision.
LEMMA Decided ==
    ASSUME Inv, phase = "done"
    PROVE  \A b \in ToSet(beans) : b \in Bean /\ status[b] \in {"resolved", "deleted"}
<1>1. /\ stack = << >> /\ pos \notin DOMAIN beans /\ pos \in Nat \ {0}
      /\ \A k \in DOMAIN beans : k < pos => status[beans[k]] # "default"
      /\ HasCall
  BY DEF Inv, Outside, TypeOK
<1> SUFFICES ASSUME NEW b \in ToSet(beans)
             PROVE  b \in Bean /\ status[b] \in {"resolved", "deleted"}
  OBVIOUS
<1>2. PICK k \in DOMAIN beans : beans[k] = b
  BY Facts
<1>3. k < pos
  <2>1. DOMAIN beans = 1..Len(beans) /\ Len(beans) \in Nat
    BY Facts
  <2> QED
    BY <1>1, <2>1
<1>4. b \in Bean /\ status[b] # "default"
  BY <1>1, <1>2, <1>3, Facts
<1>5. status[b] # "resolving"
  BY <1>1, <1>4, Facts DEF HasCall
<1> QED
  BY <1>4, <1>5, Facts DEF Status

\* Of the definitions that yield to each other, any number of them, exactly one
\* is active when Refresh has succeeded, whatever the order of registration,
\* who asks first, and what else is registered.
THEOREM Survivor == Spec => []OneDefaultSurvives
<1>1. Inv => OneDefaultSurvives
  <2> SUFFICES ASSUME Inv, phase = "done", NEW S \in SUBSET Bean,
                      S \cap ToSet(beans) # {},
                      \A b \in S \cap ToSet(beans) : Yields(b, S)
               PROVE  Cardinality((S \cap ToSet(beans)) \cap Active) = 1
    BY DEF OneDefaultSurvives
  <2>1. /\ \A b \in Bean : status[b] # "default" => b \in ToSet(beans)
        /\ DecisionsBacked /\ TakenOnce
    BY DEF Inv, Outside
  <2>2. \A b \in ToSet(beans) : b \in Bean /\ status[b] \in {"resolved", "deleted"}
    BY Decided
  <2>3. \A b \in Rivals(beans, S) : b \in Bean /\ Required[b] = Missing(S)
    BY <2>2 DEF Rivals, Required, Yields, Missing
  <2>4. Competing(beans, Required, S)
    BY <2>3 DEF Competing
  <2>5. \E w \in Rivals(beans, S) : status[w] = "resolved"
    <3>1. PICK b \in Rivals(beans, S) : TRUE
      BY DEF Rivals
    <3>2. b \in Bean /\ status[b] \in {"resolved", "deleted"} /\ Required[b] = Missing(S)
      BY <2>2, <2>3, <3>1 DEF Rivals
    <3>3. CASE status[b] = "deleted"
      <4>0. /\ DOMAIN Missing(S) = {1}
            /\ Missing(S)[1].op = "missing" /\ Missing(S)[1].sel = S
        BY MissingFacts
      <4>1. Backed(status, b, Missing(S)[1])
        BY <2>1, <3>2, <3>3, <4>0 DEF DecisionsBacked
      <4>2. PICK w \in S : status[w] = "resolved"
        BY <4>0, <4>1 DEF Backed
      <4> QED
        BY <2>1, <4>2 DEF Rivals
    <3> QED
      BY <3>1, <3>2, <3>3
  <2>6. PICK w \in Rivals(beans, S) : status[w] = "resolved"
    BY <2>5
  <2>7. (S \cap ToSet(beans)) \cap Active = {w}
    <3>1. w \in (S \cap ToSet(beans)) \cap Active
      BY <2>6 DEF Rivals, Active
    <3>2. ASSUME NEW x \in (S \cap ToSet(beans)) \cap Active PROVE x = w
      <4>1. x \in Rivals(beans, S) /\ status[x] = "resolved"
        BY <2>2 DEF Rivals, Active
      <4> QED
        BY <2>1, <2>4, <2>6, <4>1 DEF TakenOnce
    <3> QED
      BY <3>1, <3>2
  <2> QED
    BY <2>7, FS_Singleton
<1> QED
  BY <1>1, Invariance, PTL
-----------------------------------------------------------------------------
(* Definitions by recursion on a well-founded dependency.                      *)

\* T says on which elements of S each depends, and no dependency is circular.
Grounded(S, T) ==
    /\ T \in [S -> SUBSET S]
    /\ \A X \in SUBSET S : X # {} => \E x \in X : T[x] \cap X = {}

\* What step says of an element depends on no more than that.
Local(S, V, T, step) ==
    /\ step \in [S -> [[S -> V] -> V]]
    /\ \A x \in S : \A f, g \in [S -> V] :
          (\A y \in T[x] : f[y] = g[y]) => step[x][f] = step[x][g]

\* f is a solution of the equations on the closed set D.
Solves(T, step, D, f) ==
    \A x \in D : T[x] \subseteq D /\ f[x] = step[x][f]

\* Equations of which each depends on others, but never in a cycle, have a
\* solution.
LEMMA Recursion ==
    ASSUME NEW S, NEW V, NEW v0 \in V, NEW T, NEW step,
           Grounded(S, T), Local(S, V, T, step)
    PROVE  \E h \in [S -> V] : \A x \in S : h[x] = step[x][h]
<1> DEFINE F == [S -> V]
<1>1. \A x \in S : \A f, g \in F : (\A y \in T[x] : f[y] = g[y]) => step[x][f] = step[x][g]
  BY DEF Local
<1>2. /\ \A x \in S : T[x] \subseteq S
      /\ \A X \in SUBSET S : X # {} => \E x \in X : T[x] \cap X = {}
  BY DEF Grounded
<1>3. \A x \in S : \A f \in F : step[x][f] \in V
  BY DEF Local
<1> HIDE DEF F
<1> DEFINE Sol(D, f) == Solves(T, step, D, f)
           All == {x \in S : \E D \in SUBSET S : \E f \in F : Sol(D, f) /\ x \in D}
           At(x, v) == \E D \in SUBSET S : \E f \in F : Sol(D, f) /\ x \in D /\ v = f[x]
           whole == [x \in S |-> IF x \in All THEN CHOOSE v \in V : At(x, v) ELSE v0]
<1> HIDE DEF Sol
<1>4. \A D, E \in SUBSET S : \A f, g \in F :
         Sol(D, f) /\ Sol(E, g) => \A x \in D \cap E : f[x] = g[x]
  <2> SUFFICES ASSUME NEW D \in SUBSET S, NEW E \in SUBSET S, NEW f \in F, NEW g \in F,
                      Sol(D, f), Sol(E, g)
               PROVE  \A x \in D \cap E : f[x] = g[x]
    OBVIOUS
  <2> DEFINE X == {x \in D \cap E : f[x] # g[x]}
  <2> SUFFICES ASSUME X # {} PROVE FALSE
    OBVIOUS
  <2>1. \E x \in X : T[x] \cap X = {}
    <3>1. X \in SUBSET S
      OBVIOUS
    <3> HIDE DEF X
    <3> QED
      BY <1>2, <3>1
  <2>2. PICK x \in S : x \in D /\ x \in E /\ f[x] # g[x] /\ T[x] \cap X = {}
    BY <2>1
  <2>3. T[x] \subseteq D /\ T[x] \subseteq E /\ f[x] = step[x][f] /\ g[x] = step[x][g]
    BY <2>2 DEF Sol, Solves
  <2>4. \A y \in T[x] : f[y] = g[y]
    BY <2>2, <2>3
  <2> HIDE DEF X
  <2>5. step[x][f] = step[x][g]
    BY <1>1, <2>4
  <2> QED
    BY <2>2, <2>3, <2>5
<1>5. \A x \in All : \E v \in V : At(x, v)
  BY DEF F
<1>6. whole \in F /\ \A x \in All : At(x, whole[x])
  BY <1>5 DEF F
<1> HIDE DEF whole
<1>7. ASSUME NEW D \in SUBSET S, NEW f \in F, Sol(D, f), NEW x \in D
      PROVE  x \in All /\ whole[x] = f[x]
  <2>1. x \in All
    BY <1>7
  <2>2. PICK E \in SUBSET S : \E g \in F : Sol(E, g) /\ x \in E /\ whole[x] = g[x]
    BY <1>6, <2>1
  <2>3. PICK g \in F : Sol(E, g) /\ x \in E /\ whole[x] = g[x]
    BY <2>2
  <2>4. x \in D \cap E
    BY <1>7, <2>3
  <2>5. f[x] = g[x]
    BY <1>4, <1>7, <2>3, <2>4
  <2> QED
    BY <2>1, <2>3, <2>5
<1>8. Sol(All, whole)
  <2> SUFFICES ASSUME NEW x \in All PROVE T[x] \subseteq All /\ whole[x] = step[x][whole]
    BY DEF Sol, Solves
  <2>1. PICK D \in SUBSET S : \E f \in F : Sol(D, f) /\ x \in D
    OBVIOUS
  <2>2. PICK f \in F : Sol(D, f) /\ x \in D
    BY <2>1
  <2>3. T[x] \subseteq D /\ f[x] = step[x][f]
    BY <2>2 DEF Sol, Solves
  <2>4. \A y \in D : y \in All /\ whole[y] = f[y]
    <3> HIDE DEF All
    <3> QED
      BY <1>7, <2>2
  <2>5. x \in S
    OBVIOUS
  <2> HIDE DEF All
  <2>6. \A y \in T[x] : whole[y] = f[y]
    BY <2>3, <2>4
  <2>7. step[x][whole] = step[x][f]
    BY <1>1, <1>6, <2>5, <2>6
  <2> QED
    BY <2>2, <2>3, <2>4, <2>7
<1>9. All = S
  <2> SUFFICES ASSUME S \ All # {} PROVE FALSE
    OBVIOUS
  <2> HIDE DEF All
  <2>1. PICK x \in S \ All : T[x] \cap (S \ All) = {}
    BY <1>2
  <2>2. All \subseteq S
    BY DEF All
  <2> DEFINE D == All \cup {x}
             f == [whole EXCEPT ![x] = step[x][whole]]
  <2>3. T[x] \subseteq All
    BY <1>2, <2>1
  <2>4. f \in F /\ f[x] = step[x][whole] /\ \A y \in All : f[y] = whole[y]
    BY <1>6, <1>3, <2>1, <2>2 DEF F
  <2> HIDE DEF f
  <2>5. ASSUME NEW y \in D PROVE T[y] \subseteq All /\ f[y] = step[y][f]
    <3>1. T[y] \subseteq All /\ f[y] = step[y][whole]
      BY <1>8, <2>3, <2>4 DEF Sol, Solves
    <3>2. \A z \in T[y] : f[z] = whole[z]
      BY <2>4, <3>1
    <3>3. y \in S
      BY <2>2
    <3>4. step[y][f] = step[y][whole]
      BY <1>1, <1>6, <2>4, <3>2, <3>3
    <3> QED
      BY <3>1, <3>4
  <2>6. D \in SUBSET S /\ x \in D /\ Sol(D, f)
    BY <2>2, <2>5 DEF Sol, Solves
  <2>7. x \in All
    BY <2>4, <2>6 DEF All
  <2> QED
    BY <2>7
<1> HIDE DEF All
<1>10. \A x \in S : whole[x] = step[x][whole]
  BY <1>8, <1>9 DEF Sol, Solves
<1> QED
  BY <1>6, <1>10 DEF F

\* The operands of a condition, on which what it asks for and what it means
\* depend.
Parts == [c \in Cond |-> IF c.op \in GroupOps THEN {c.args[i] : i \in DOMAIN c.args} ELSE {}]

LEMMA PartsGrounded == Grounded(Cond, Parts)
<1>1. ASSUME NEW c \in Cond, c.op \in GroupOps
      PROVE  \A i \in DOMAIN c.args : c.args[i] \in Cond /\ Nesting[c.args[i]] < Nesting[c]
  BY <1>1, Ops, Element, NestingAssumption
<1>2. Parts \in [Cond -> SUBSET Cond]
  BY <1>1 DEF Parts
<1>3. ASSUME NEW X \in SUBSET Cond, X # {}
      PROVE  \E c \in X : Parts[c] \cap X = {}
  <2> DEFINE N == {Nesting[c] : c \in X}
  <2>1. N \subseteq Nat /\ N # {}
    BY <1>3, NestingAssumption
  <2>2. PICK n \in N : \A m \in N : ~ <<m, n>> \in OpToRel(<, Nat)
    BY <2>1, NatLessThanWellFounded, WFMin
  <2>3. PICK c \in X : Nesting[c] = n
    OBVIOUS
  <2>4. ASSUME NEW d \in X PROVE ~(Nesting[d] < Nesting[c])
    <3>1. Nesting[d] \in N /\ Nesting[d] \in Nat /\ n \in Nat
      BY <2>1
    <3> QED
      BY <2>2, <2>3, <3>1 DEF OpToRel
  <2>5. \A d \in Parts[c] : Nesting[d] < Nesting[c]
    BY <1>1 DEF Parts
  <2> QED
    BY <2>4, <2>5
<1> QED
  BY <1>2, <1>3 DEF Grounded

\* What a condition asks for, by its kind.
LEMMA AskedFacts ==
    /\ \A c \in Cond : Asked[c] \in SUBSET Bean
    /\ \A c \in Cond : c.op \in LeafOps => Asked[c] = c.sel
    /\ \A c \in Cond : c.op \in GroupOps => \A i \in DOMAIN c.args : Asked[c.args[i]] \subseteq Asked[c]
<1> DEFINE V == SUBSET Bean
           eq(f, c) == CASE c.op = "const" -> {}
                         [] c.op \in LeafOps -> c.sel
                         [] c.op \in GroupOps -> UNION {f[c.args[i]] : i \in DOMAIN c.args}
           step == [c \in Cond |-> [f \in [Cond -> V] |-> eq(f, c)]]
<1>1. ASSUME NEW c \in Cond, NEW f,
             c.op \in GroupOps => \A i \in DOMAIN c.args : f[c.args[i]] \in V
      PROVE  /\ eq(f, c) \in V
             /\ c.op \in LeafOps => eq(f, c) = c.sel
             /\ c.op \in GroupOps => eq(f, c) = UNION {f[c.args[i]] : i \in DOMAIN c.args}
  <2>1. CASE c.op = "const"
    BY <2>1 DEF LeafOps, GroupOps
  <2>2. CASE c.op \in LeafOps
    BY <2>2, Ops DEF LeafOps, GroupOps
  <2>3. CASE c.op \in GroupOps
    BY <1>1, <2>3 DEF LeafOps, GroupOps
  <2> QED
    BY <2>1, <2>2, <2>3, Ops
<1>2. ASSUME NEW c \in Cond, NEW f \in [Cond -> V], NEW g \in [Cond -> V],
             \A d \in Parts[c] : f[d] = g[d]
      PROVE  eq(f, c) = eq(g, c)
  <2>1. CASE c.op = "const"
    BY <2>1
  <2>2. CASE c.op \in LeafOps
    BY <2>2 DEF LeafOps, GroupOps
  <2>3. CASE c.op \in GroupOps
    <3>1. \A i \in DOMAIN c.args : f[c.args[i]] = g[c.args[i]]
      BY <1>2, <2>3 DEF Parts
    <3> QED
      BY <2>3, <3>1 DEF LeafOps, GroupOps
  <2> QED
    BY <2>1, <2>2, <2>3, Ops
<1> HIDE DEF eq
<1>3. \A c \in Cond : \A f \in [Cond -> V] : eq(f, c) \in V
  <2>1. ASSUME NEW c \in Cond, NEW f \in [Cond -> V], c.op \in GroupOps
        PROVE  \A i \in DOMAIN c.args : f[c.args[i]] \in V
    BY <2>1, Ops, Element
  <2> QED
    BY <1>1, <2>1
<1> HIDE DEF eq
<1>4. /\ step \in [Cond -> [[Cond -> V] -> V]]
      /\ \A c \in Cond : \A f \in [Cond -> V] : step[c][f] = eq(f, c)
  BY <1>3
<1> HIDE DEF step, V
<1>5. Local(Cond, V, Parts, step)
  <2>1. ASSUME NEW c \in Cond, NEW f \in [Cond -> V], NEW g \in [Cond -> V],
               \A d \in Parts[c] : f[d] = g[d]
        PROVE  step[c][f] = step[c][g]
    <3>1. eq(f, c) = eq(g, c)
      BY <1>2, <2>1
    <3> QED
      BY <1>4, <3>1
  <2> QED
    BY <1>4, <2>1 DEF Local
<1>6. PICK h \in [Cond -> V] : \A c \in Cond : h[c] = step[c][h]
  <2>1. {} \in V
    BY DEF V
  <2> QED
    BY <1>5, <2>1, PartsGrounded, Recursion
<1>7. h = [c \in Cond |-> eq(h, c)]
  BY <1>4, <1>6
<1>8. Asked = [c \in Cond |-> eq(Asked, c)]
  BY <1>7 DEF Asked, eq
<1>9. \A c \in Cond : Asked[c] \in V
  <2> DEFINE X == {c \in Cond : Asked[c] \notin V}
  <2> SUFFICES ASSUME X # {} PROVE FALSE
    OBVIOUS
  <2>1. PICK c \in X : Parts[c] \cap X = {}
    <3>1. X \in SUBSET Cond
      OBVIOUS
    <3> HIDE DEF X
    <3> QED
      BY <3>1, PartsGrounded DEF Grounded
  <2>2. c.op \in GroupOps => \A i \in DOMAIN c.args : Asked[c.args[i]] \in V
    <3>1. c.op \in GroupOps => \A i \in DOMAIN c.args : c.args[i] \in Cond
      BY Ops, Element
    <3> QED
      BY <2>1, <3>1 DEF Parts
  <2>3. eq(Asked, c) \in V
    BY <1>1, <2>2
  <2>4. c \in Cond /\ Asked[c] \notin V
    OBVIOUS
  <2> HIDE DEF X
  <2>5. Asked[c] = eq(Asked, c)
    BY <1>8, <2>4
  <2> QED
    BY <2>3, <2>4, <2>5
<1> QED
  <2>1. ASSUME NEW c \in Cond, c.op \in GroupOps
        PROVE  \A i \in DOMAIN c.args : Asked[c.args[i]] \in V
    BY <1>9, <2>1, Ops, Element
  <2>2. \A c \in Cond : Asked[c] = eq(Asked, c)
    BY <1>8
  <2> QED
    BY <1>1, <1>9, <2>1, <2>2 DEF V

Holds(A, b, c) == Meaning(b, A)[c]

LEMMA TruthType ==
    ASSUME NEW f, NEW c \in Cond, NEW b, NEW A
    PROVE  Truth(f, c, b, A) \in BOOLEAN
<1>1. c.op \in {"const", "bean", "missing", "single", "or", "and", "not", "none"}
  BY Ops DEF LeafOps, GroupOps
<1> QED
  BY <1>1, Zenon DEF Truth

LEMMA TruthOfGroup ==
    ASSUME NEW f, NEW g, NEW c \in Cond, c.op \in GroupOps, NEW b, NEW A,
           \A i \in DOMAIN c.args : f[c.args[i]] = g[c.args[i]]
    PROVE  Truth(f, c, b, A) = Truth(g, c, b, A)
<1>1. c.op \in {"or", "and", "not", "none"}
  BY DEF GroupOps
<1>2. (\E i \in DOMAIN c.args : f[c.args[i]]) = (\E i \in DOMAIN c.args : g[c.args[i]])
  BY Zenon
<1>3. (\A i \in DOMAIN c.args : f[c.args[i]]) = (\A i \in DOMAIN c.args : g[c.args[i]])
  BY Zenon
<1> QED
  BY <1>1, <1>2, <1>3 DEF Truth

\* The meaning of a condition is the one that Truth describes.
LEMMA MeaningIsTruth ==
    ASSUME NEW b, NEW A
    PROVE  \A c \in Cond : Holds(A, b, c) = Truth(Meaning(b, A), c, b, A)
<1> DEFINE eq(f, c) == Truth(f, c, b, A)
           step == [c \in Cond |-> [f \in [Cond -> BOOLEAN] |-> eq(f, c)]]
<1>1. \A c \in Cond : \A f \in [Cond -> BOOLEAN] : eq(f, c) \in BOOLEAN
  BY TruthType
<1>2. ASSUME NEW c \in Cond, NEW f \in [Cond -> BOOLEAN], NEW g \in [Cond -> BOOLEAN],
             \A d \in Parts[c] : f[d] = g[d]
      PROVE  eq(f, c) = eq(g, c)
  <2>1. CASE c.op \in GroupOps
    <3>1. \A i \in DOMAIN c.args : f[c.args[i]] = g[c.args[i]]
      BY <1>2, <2>1 DEF Parts
    <3> QED
      BY <2>1, <3>1, TruthOfGroup
  <2>2. CASE c.op \notin GroupOps
    <3>1. c.op \in {"const", "bean", "missing", "single"}
      BY <2>2, Ops DEF LeafOps
    <3> QED
      BY <3>1 DEF Truth
  <2> QED
    BY <2>1, <2>2
<1> HIDE DEF eq
<1>3. /\ step \in [Cond -> [[Cond -> BOOLEAN] -> BOOLEAN]]
      /\ \A c \in Cond : \A f \in [Cond -> BOOLEAN] : step[c][f] = eq(f, c)
  BY <1>1
<1> HIDE DEF step
<1>4. Local(Cond, BOOLEAN, Parts, step)
  <2>1. ASSUME NEW c \in Cond, NEW f \in [Cond -> BOOLEAN], NEW g \in [Cond -> BOOLEAN],
               \A d \in Parts[c] : f[d] = g[d]
        PROVE  step[c][f] = step[c][g]
    <3>1. eq(f, c) = eq(g, c)
      BY <1>2, <2>1
    <3> QED
      BY <1>3, <3>1
  <2> QED
    BY <1>3, <2>1 DEF Local
<1>5. PICK h \in [Cond -> BOOLEAN] : \A c \in Cond : h[c] = step[c][h]
  <2> DEFINE V == BOOLEAN
  <2>1. TRUE \in V /\ Local(Cond, V, Parts, step)
    BY <1>4
  <2> HIDE DEF V
  <2>2. \E h \in [Cond -> V] : \A c \in Cond : h[c] = step[c][h]
    <3>1. PICK v0 \in V : TRUE
      BY <2>1
    <3> QED
      BY <2>1, <3>1, PartsGrounded, Recursion
  <2> QED
    BY <2>2 DEF V
<1>6. h = [c \in Cond |-> eq(h, c)]
  BY <1>3, <1>5
<1>7. Meaning(b, A) = [c \in Cond |-> eq(Meaning(b, A), c)]
  BY <1>6 DEF Meaning, eq
<1> QED
  BY <1>7 DEF Holds, eq

\* What a condition means, by its kind.
LEMMA HoldsFacts ==
    ASSUME NEW b, NEW A, NEW c \in Cond
    PROVE  /\ c.op = "const" => (Holds(A, b, c) <=> c.val = "true")
           /\ c.op \in LeafOps => (Holds(A, b, c) <=> Matched(c.op, (c.sel \ {b}) \cap A))
           /\ c.op = "or" => (Holds(A, b, c) <=> \E i \in DOMAIN c.args : Holds(A, b, c.args[i]))
           /\ c.op = "and" => (Holds(A, b, c) <=> \A i \in DOMAIN c.args : Holds(A, b, c.args[i]))
           /\ c.op \in {"not", "none"} =>
                 (Holds(A, b, c) <=> ~\E i \in DOMAIN c.args : Holds(A, b, c.args[i]))
<1>1. Holds(A, b, c) = Truth(Meaning(b, A), c, b, A)
  BY MeaningIsTruth
<1>2. CASE c.op = "const"
  BY <1>1, <1>2 DEF Truth, LeafOps
<1>3. CASE c.op \in LeafOps
  BY <1>1, <1>3 DEF Truth, LeafOps, Matched
<1>4. CASE c.op = "or"
  BY <1>1, <1>4 DEF Truth, LeafOps, Holds
<1>5. CASE c.op = "and"
  BY <1>1, <1>5 DEF Truth, LeafOps, Holds
<1>6. CASE c.op \in {"not", "none"}
  BY <1>1, <1>6 DEF Truth, LeafOps, Holds
<1> QED
  BY <1>2, <1>3, <1>4, <1>5, <1>6, Ops DEF LeafOps, GroupOps

\* A condition means the same for sets that have the same of what it asks for.
LEMMA HoldsLocal ==
    ASSUME NEW A, NEW B, NEW b, NEW c0 \in Cond,
           \A x \in Asked[c0] \ {b} : x \in A <=> x \in B
    PROVE  Holds(A, b, c0) <=> Holds(B, b, c0)
<1> DEFINE Same(c) == \A x \in Asked[c] \ {b} : x \in A <=> x \in B
           X == {c \in Cond : Same(c) /\ ~(Holds(A, b, c) <=> Holds(B, b, c))}
<1> SUFFICES ASSUME X # {} PROVE FALSE
  OBVIOUS
<1>1. \E c \in X : Parts[c] \cap X = {}
  <2>1. X \in SUBSET Cond
    OBVIOUS
  <2> HIDE DEF X
  <2> QED
    BY <2>1, PartsGrounded DEF Grounded
<1>2. PICK c \in Cond : Same(c) /\ ~(Holds(A, b, c) <=> Holds(B, b, c)) /\ Parts[c] \cap X = {}
  BY <1>1
<1>3. CASE c.op = "const"
  BY <1>2, <1>3, HoldsFacts
<1>4. CASE c.op \in LeafOps
  <2>1. Asked[c] = c.sel
    BY <1>4, AskedFacts
  <2>2. (c.sel \ {b}) \cap A = (c.sel \ {b}) \cap B
    BY <1>2, <2>1
  <2>3. /\ Holds(A, b, c) <=> Matched(c.op, (c.sel \ {b}) \cap A)
        /\ Holds(B, b, c) <=> Matched(c.op, (c.sel \ {b}) \cap B)
    BY <1>4, HoldsFacts
  <2> HIDE DEF X
  <2> QED
    BY <1>2, <2>2, <2>3
<1>5. CASE c.op \in GroupOps
  <2>1. ASSUME NEW i \in DOMAIN c.args
        PROVE  Holds(A, b, c.args[i]) <=> Holds(B, b, c.args[i])
    <3>1. c.args[i] \in Cond /\ c.args[i] \in Parts[c]
      BY <1>5, Ops, Element DEF Parts
    <3>2. Same(c.args[i])
      BY <1>2, <1>5, AskedFacts
    <3> QED
      BY <1>2, <3>1, <3>2
  <2> HIDE DEF X
  <2> QED
    BY <1>2, <1>5, <2>1, HoldsFacts DEF GroupOps
<1> QED
  BY <1>3, <1>4, <1>5, Ops

\* What the conditions of b ask for.
Targets(req, b) == (UNION {Asked[req[b][i]] : i \in DOMAIN req[b]}) \ {b}

Layered(req) ==
    \A X \in SUBSET Bean : X # {} => \E b \in X : Targets(req, b) \cap X = {}

\* A is the set of definitions in the list bs that agrees with all conditions.
Agrees(bs, req, A) ==
    \A b \in Bean :
        b \in A <=> b \in ToSet(bs) /\ \A i \in DOMAIN req[b] : Holds(A, b, req[b][i])

\* When no definition's conditions come back to it, there is such a set.
LEMMA Agreement ==
    ASSUME NEW bs, NEW req \in [Bean -> Seq(Cond)], Layered(req)
    PROVE  \E A \in SUBSET Bean : Agrees(bs, req, A)
<1> DEFINE V == {"in", "out"}
           set(f) == {x \in Bean : f[x] = "in"}
           stays(b, A) == b \in ToSet(bs) /\ \A i \in DOMAIN req[b] : Holds(A, b, req[b][i])
           T == [b \in Bean |-> Targets(req, b)]
           step == [b \in Bean |-> [f \in [Bean -> V] |-> IF stays(b, set(f)) THEN "in" ELSE "out"]]
<1>1. ASSUME NEW b \in Bean, NEW i \in DOMAIN req[b]
      PROVE  req[b][i] \in Cond /\ Asked[req[b][i]] \in SUBSET Bean
  BY <1>1, Element, AskedFacts
<1>2. Grounded(Bean, T)
  <2>1. T \in [Bean -> SUBSET Bean]
    BY <1>1 DEF Targets
  <2> QED
    BY <2>1 DEF Grounded, Layered
<1>3. ASSUME NEW b \in Bean, NEW A, NEW B, \A x \in Targets(req, b) : x \in A <=> x \in B
      PROVE  stays(b, A) <=> stays(b, B)
  <2>1. ASSUME NEW i \in DOMAIN req[b]
        PROVE  Holds(A, b, req[b][i]) <=> Holds(B, b, req[b][i])
    <3>1. \A x \in Asked[req[b][i]] \ {b} : x \in A <=> x \in B
      BY <1>3 DEF Targets
    <3> QED
      BY <1>1, <3>1, HoldsLocal
  <2> QED
    BY <2>1
<1> HIDE DEF stays
<1>4. /\ step \in [Bean -> [[Bean -> V] -> V]]
      /\ \A b \in Bean : \A f \in [Bean -> V] :
            step[b][f] = IF stays(b, set(f)) THEN "in" ELSE "out"
  OBVIOUS
<1> HIDE DEF step
<1>5. Local(Bean, V, T, step)
  <2>1. ASSUME NEW b \in Bean, NEW f \in [Bean -> V], NEW g \in [Bean -> V],
               \A x \in T[b] : f[x] = g[x]
        PROVE  step[b][f] = step[b][g]
    <3>1. \A x \in Targets(req, b) : x \in set(f) <=> x \in set(g)
      BY <2>1
    <3>2. stays(b, set(f)) <=> stays(b, set(g))
      BY <1>3, <3>1
    <3> QED
      BY <1>4, <3>2
  <2> QED
    BY <1>4, <2>1 DEF Local
<1>6. PICK h \in [Bean -> V] : \A b \in Bean : h[b] = step[b][h]
  <2>1. "in" \in V
    OBVIOUS
  <2> HIDE DEF V, T
  <2> QED
    BY <1>2, <1>5, <2>1, Recursion
<1>7. \A b \in Bean : b \in set(h) <=> stays(b, set(h))
  BY <1>4, <1>6
<1> QED
  BY <1>7 DEF Agrees, stays

-----------------------------------------------------------------------------
(* What the frames have behind them, against a set of definitions that agrees  *)
(* with all conditions.                                                        *)

\* The operands that resolveBean or a group evaluates, and the result with
\* which it goes on to the next one: resolveBean is an `and'.
Operands(req, f) == IF f.kind = "bean" THEN req[f.bean] ELSE f.cond.args
Demand(f) == f.kind = "bean" \/ f.cond.op = "and"

\* Level m of the stack s is the resolveBean that level n works for.
For(s, m, n) ==
    /\ m \in 1..n
    /\ Level(s, m).kind = "bean"
    /\ \A k \in (m + 1)..n : Level(s, k).kind = "cond"

\* A group evaluates its operands in order, and a result waits for it from the
\* first of them on.
GroupsUnderWay ==
    \A n \in 1..Len(stack) :
        Level(stack, n).kind = "cond" /\ Level(stack, n).cond.op \in GroupOps =>
            /\ Level(stack, n).at <= Len(Level(stack, n).cond.args) + 1
            /\ n = Len(stack) => (ret = "none" <=> Level(stack, n).at = 1)

OperandsAsked ==
    \A n \in 1..Len(stack) :
        /\ n > 1 /\ Level(stack, n).kind = "cond" /\ Level(stack, n - 1).kind = "cond"
        => /\ Level(stack, n - 1).at > 1
           /\ Level(stack, n).cond
                 = Level(stack, n - 1).cond.args[Level(stack, n - 1).at - 1]

\* What is asked for on behalf of a resolveBean is what its conditions ask for.
WithinTargets ==
    \A m, n \in 1..Len(stack) : For(stack, m, n) /\ m < n =>
        Asked[Level(stack, n).cond] \ {Level(stack, m).bean}
            \subseteq Targets(Required, Level(stack, m).bean)

FindersSelect ==
    \A n \in 1..Len(stack) : n > 1 /\ Level(stack, n).kind = "bean" =>
        Level(stack, n).bean \in Level(stack, n - 1).cond.sel

Layout == GroupsUnderWay /\ OperandsAsked /\ WithinTargets /\ FindersSelect

\* What frame f has behind it, on behalf of b, is as A has it: a Find holds the
\* members of A that it has passed, and the other functions go on only as long
\* as they have to.
Sound(bs, req, A, b, f) ==
    IF Leaf(f)
    THEN \A x \in Bean : x \in f.found <=>
            /\ x \in f.cond.sel /\ x # b /\ x \in A
            /\ \E k \in DOMAIN bs : k < f.at /\ bs[k] = x
    ELSE \A k \in DOMAIN Operands(req, f) :
            k < f.at - 1 => (Holds(A, b, Operands(req, f)[k]) <=> Demand(f))

\* So is the result r that waits for it.
Fits(req, A, b, f, r) ==
    ~Leaf(f) /\ f.at > 1 =>
        /\ r = "true" => Holds(A, b, Operands(req, f)[f.at - 1])
        /\ r = "false" => ~Holds(A, b, Operands(req, f)[f.at - 1])

DecidedRight(A) ==
    \A b \in Bean : /\ status[b] = "resolved" => b \in A
                    /\ status[b] = "deleted" => b \notin A

FramesRight(A) ==
    \A m, n \in 1..Len(stack) : For(stack, m, n) =>
        Sound(beans, Required, A, Level(stack, m).bean, Level(stack, n))

AnswerRight(A) ==
    \A m \in 1..Len(stack) : For(stack, m, Len(stack)) =>
        Fits(Required, A, Level(stack, m).bean, Level(stack, Len(stack)), ret)

Right(A) == DecidedRight(A) /\ FramesRight(A) /\ AnswerRight(A)

AllRight ==
    phase \in {"resolve", "done"} /\ Layered(Required) =>
        \A A \in SUBSET Bean : Agrees(beans, Required, A) => Right(A)

-----------------------------------------------------------------------------
\* resolveBean or a group, with frame f, goes on to g and asks for c.
Asks(f, g, c) ==
    /\ ~Leaf(f) /\ ~Leaf(g) /\ g.kind = f.kind /\ g.at = f.at + 1
    /\ f.kind = "bean" => g.bean = f.bean
    /\ f.kind = "cond" => g.cond = f.cond /\ f.cond.op \in GroupOps
    /\ f.at \in DOMAIN Operands(Required, f)
    /\ c \in Cond /\ c = Operands(Required, f)[f.at]
    /\ ret = "none" <=> f.at = 1
    /\ ret # "none" => (ret = "true" <=> Demand(f)) /\ ret \in {"true", "false"}
    /\ Evaluates(f, g, c)

LEMMA AsksMove ==
    ASSUME Inv, Layout, NEW f, f = Level(stack, Len(stack)), stack # << >>,
           Judges(f) \/ GroupAsks(f)
    PROVE  \E g, c : Asks(f, g, c)
<1>0. /\ Len(stack) \in 1..Len(stack) /\ ret \in Outcome \cup {"none"}
      /\ f.at \in Nat \ {0} /\ (f.kind = "bean" => f.bean \in Bean)
      /\ LeafOps \cap GroupOps = {}
  BY Facts DEF LeafOps, GroupOps
<1>1. CASE Judges(f)
  <2> DEFINE g == BeanFrameOf(f.bean, f.at + 1)
             c == Required[f.bean][f.at]
  <2>1. c \in Cond /\ f.kind = "bean" /\ f.at \in DOMAIN Required[f.bean] /\ ret # "false"
        /\ Evaluates(f, g, c)
    BY <1>0, <1>1, Facts DEF Judges
  <2>2. ret = "none" <=> f.at = 1
    BY <2>1 DEF Inv, Answered
  <2>3. ret # "none" => ret = "true"
    BY <1>0, <2>1 DEF Outcome, Evaluates
  <2>4. g.kind = "bean" /\ g.bean = f.bean /\ g.at = f.at + 1
    BY Fields
  <2> HIDE DEF g
  <2>5. Asks(f, g, c)
    BY <2>1, <2>2, <2>3, <2>4 DEF Asks, Leaf, Operands, Demand
  <2> QED
    BY <2>5
<1>2. CASE GroupAsks(f)
  <2> DEFINE g == CondFrameOf(f.cond, f.at + 1, f.found)
  <2>1. PICK c \in Cond : c = f.cond.args[f.at] /\ Evaluates(f, g, c)
    BY <1>2 DEF GroupAsks
  <2>2. f.kind = "cond" /\ f.cond.op \in GroupOps /\ f.at \in DOMAIN f.cond.args
        /\ ret # StopsAt(f.cond.op) /\ ret # "err"
    BY <1>2, <2>1 DEF GroupAsks, Evaluates
  <2>3. ret = "none" <=> f.at = 1
    BY <1>0, <2>2 DEF Layout, GroupsUnderWay
  <2>4. ret # "none" => (ret = "true" <=> Demand(f)) /\ ret \in {"true", "false"}
    BY <1>0, <2>2 DEF Outcome, StopsAt, Demand
  <2>5. g.kind = "cond" /\ g.cond = f.cond /\ g.at = f.at + 1
    BY Fields
  <2> HIDE DEF g
  <2>6. Asks(f, g, c)
    BY <1>0, <2>1, <2>2, <2>3, <2>4, <2>5 DEF Asks, Leaf, Operands
  <2> QED
    BY <2>6
<1> QED
  BY <1>1, <1>2

\* A step, seen from the level of the innermost frame f.
Turn(f) == \/ \E g, c : Asks(f, g, c)
           \/ Accepts(f) \/ Rejects(f) \/ GroupReturns(f) \/ FindReturns(f) \/ Looks(f)

LEMMA Turns ==
    ASSUME Inv, Layout, Move
    PROVE  \/ Rests
           \/ \E b \in Bean : Enters(b)
           \/ stack # << >> /\ Turn(Level(stack, Len(stack)))
BY AsksMove DEF Move, MoveOf, Turn

\* A frame stays what it is, and a new one is a call of resolveBean or of a
\* condition.
LEMMA Kept ==
    ASSUME Inv, Layout, Move
    PROVE  /\ \A n \in 1..Len(stack) : n <= Len(stack') =>
                 /\ Level(stack', n).kind = Level(stack, n).kind
                 /\ Level(stack, n).kind = "bean" => Level(stack', n).bean = Level(stack, n).bean
                 /\ Level(stack, n).kind = "cond" => Level(stack', n).cond = Level(stack, n).cond
           /\ Len(stack') > Len(stack) =>
                 \/ \E b \in Bean : /\ Enters(b)
                                    /\ Level(stack', Len(stack)  + 1) = BeanFrameOf(b, 1)
                 \/ /\ stack # << >>
                    /\ \E g, c : /\ Asks(Level(stack, Len(stack)), g, c)
                                 /\ ret' = "none" /\ Level(stack', Len(stack)) = g
                                 /\ Level(stack', Len(stack) + 1) = CondFrameOf(c, 1, {})
<1> DEFINE D == Len(stack)
           E == Len(stack')
           f == Level(stack, D)
           Same(g) == /\ g.kind = f.kind
                      /\ f.kind = "bean" => g.bean = f.bean
                      /\ f.kind = "cond" => g.cond = f.cond
           New == \/ \E b \in Bean : Enters(b) /\ Level(stack', D + 1) = BeanFrameOf(b, 1)
                  \/ /\ stack # << >>
                     /\ \E g, c : /\ Asks(f, g, c)
                                  /\ ret' = "none" /\ Level(stack', D) = g
                                  /\ Level(stack', D + 1) = CondFrameOf(c, 1, {})
<1>0. D \in Nat /\ E \in Nat /\ E \in {D - 1, D, D + 1}
      /\ \A n \in 1..(D - 1) : Level(stack', n) = Level(stack, n)
      /\ (stack = << >> <=> D = 0)
  BY Facts, Below
<1> SUFFICES (D \in 1..D /\ E >= D => Same(Level(stack', D))) /\ (E > D => New)
  <2> HIDE DEF New
  <2>1. ASSUME D \in 1..D /\ E >= D => Same(Level(stack', D)),
               NEW n \in 1..D, n <= E
        PROVE  /\ Level(stack', n).kind = Level(stack, n).kind
               /\ Level(stack, n).kind = "bean" => Level(stack', n).bean = Level(stack, n).bean
               /\ Level(stack, n).kind = "cond" => Level(stack', n).cond = Level(stack, n).cond
    <3>1. CASE n = D
      BY <1>0, <2>1, <3>1
    <3>2. CASE n # D
      <4>1. n \in 1..(D - 1)
        BY <1>0, <3>2
      <4> QED
        BY <1>0, <4>1
    <3> QED
      BY <3>1, <3>2
  <2> QED
    BY <2>1 DEF New
<1>1. CASE Rests
  BY <1>0, <1>1 DEF Rests
<1>2. ASSUME NEW b \in Bean, Enters(b)
      PROVE  (D \in 1..D /\ E >= D => Same(Level(stack', D))) /\ (E > D => New)
  BY <1>0, <1>2 DEF Enters, Pushed, SameUpTo
<1>3. ASSUME NEW g, NEW c, Asks(f, g, c), stack # << >>
      PROVE  Same(Level(stack', D)) /\ (E > D => New)
  <2>1. Level(stack', D) = g
        /\ (E > D => ret' = "none" /\ Level(stack', D + 1) = CondFrameOf(c, 1, {}))
    BY <1>0, <1>3 DEF Asks, Evaluates, Swapped, Called
  <2> QED
    BY <1>3, <2>1 DEF Asks
<1>4. CASE stack # << >> /\ (Accepts(f) \/ Rejects(f) \/ GroupReturns(f) \/ FindReturns(f))
  BY <1>0, <1>4 DEF Accepts, Rejects, GroupReturns, FindReturns, Popped
<1>5. CASE stack # << >> /\ Looks(f)
  <2>1. Level(stack', D).kind = "cond" /\ Level(stack', D).cond = f.cond /\ f.kind = "cond"
        /\ E = D
    BY <1>5, Fields DEF Looks, Swapped, Leaf
  <2> QED
    BY <1>0, <2>1
<1> QED
  BY <1>1, <1>2, <1>3, <1>4, <1>5, Turns DEF Turn

\* Who a frame works for does not change.
LEMMA ForBefore ==
    ASSUME Inv, Layout, Move, NEW m \in 1..Len(stack'), NEW n \in 1..Len(stack'),
           For(stack', m, n)
    PROVE  /\ m <= n
           /\ n <= Len(stack) => For(stack, m, n) /\ Level(stack', m).bean = Level(stack, m).bean
           /\ n > Len(stack) /\ m <= Len(stack) =>
                 /\ n = Len(stack) + 1 /\ For(stack, m, Len(stack))
                 /\ Level(stack', n).kind = "cond"
                 /\ Level(stack', m).bean = Level(stack, m).bean
<1> DEFINE D == Len(stack)
<1>0. D \in Nat /\ Len(stack') \in Nat /\ Len(stack') \in {D - 1, D, D + 1}
  BY Facts, Below
<1>1. m \in Nat /\ n \in Nat /\ 1 <= m /\ m <= n /\ Level(stack', m).kind = "bean"
      /\ \A k \in (m + 1)..n : Level(stack', k).kind = "cond"
  BY <1>0 DEF For
<1>2. \A k \in 1..D : k <= n =>
         /\ Level(stack', k).kind = Level(stack, k).kind
         /\ Level(stack, k).kind = "bean" => Level(stack', k).bean = Level(stack, k).bean
  BY <1>0, <1>1, Kept
<1>3. ASSUME m <= D, NEW l \in 1..D, m <= l, l <= n
      PROVE  For(stack, m, l) /\ Level(stack', m).bean = Level(stack, m).bean
  <2>1. m \in 1..D /\ m \in 1..l
    BY <1>0, <1>1, <1>3
  <2>2. ASSUME NEW k \in (m + 1)..l PROVE Level(stack, k).kind = "cond"
    <3>1. k \in 1..D /\ k \in (m + 1)..n /\ k <= n
      BY <1>0, <1>1, <1>3
    <3> QED
      BY <1>1, <1>2, <3>1
  <2> QED
    BY <1>1, <1>2, <2>1, <2>2 DEF For
<1>4. CASE n <= D
  <2>1. n \in 1..D /\ m <= D
    BY <1>0, <1>1, <1>4
  <2> QED
    BY <1>1, <1>3, <1>4, <2>1
<1>5. CASE n > D /\ m <= D
  <2>1. D \in 1..D /\ m <= D /\ D <= n /\ n = D + 1 /\ n \in (m + 1)..n
    BY <1>0, <1>1, <1>5
  <2> QED
    BY <1>1, <1>3, <1>5, <2>1
<1> QED
  BY <1>0, <1>1, <1>4, <1>5

-----------------------------------------------------------------------------
(* Every move preserves the layout of the stack.                               *)

\* A frame that is gone has returned.
LEMMA Returned ==
    ASSUME Inv, Layout, Move, Len(stack') < Len(stack), NEW f, f = Level(stack, Len(stack))
    PROVE  stack # << >> /\ (Accepts(f) \/ Rejects(f) \/ GroupReturns(f) \/ FindReturns(f))
<1> DEFINE D == Len(stack)
           E == Len(stack')
<1>0. D \in Nat /\ E \in Nat /\ E < D
  BY Facts, Below
<1>1. ~Rests
  BY <1>0 DEF Rests
<1>2. ~\E b \in Bean : Enters(b)
  BY <1>0 DEF Enters, Pushed
<1>3. ~\E g, c : Asks(f, g, c)
  BY <1>0 DEF Asks, Evaluates, Swapped, Called
<1>4. ~Looks(f)
  BY <1>0 DEF Looks, Swapped
<1> QED
  BY <1>1, <1>2, <1>3, <1>4, Turns DEF Turn

LEMMA GroupsUnderWayStep ==
    ASSUME Inv, Layout, Move
    PROVE  GroupsUnderWay'
<1> DEFINE D == Len(stack)
           E == Len(stack')
           f == Level(stack, D)
           Goal(n) == /\ Level(stack', n).at <= Len(Level(stack', n).cond.args) + 1
                      /\ n = E => (ret' = "none" <=> Level(stack', n).at = 1)
<1>0. /\ D \in Nat /\ E \in Nat /\ E \in {D - 1, D, D + 1}
      /\ LeafOps \cap GroupOps = {} /\ (stack = << >> <=> D = 0)
      /\ \A n \in 1..(D - 1) : Level(stack', n) = Level(stack, n)
  BY Facts, Below DEF LeafOps, GroupOps
<1>1. SUFFICES ASSUME NEW n \in 1..E, Level(stack', n).kind = "cond",
                      Level(stack', n).cond.op \in GroupOps
               PROVE  Goal(n)
  BY DEF GroupsUnderWay
<1>2. ~Leaf(Level(stack', n))
  BY <1>0, <1>1 DEF Leaf
<1>3. CASE n < D
  <2>1. n \in 1..D /\ Level(stack', n) = Level(stack, n)
    BY <1>0, <1>3
  <2>2. Level(stack', n).at <= Len(Level(stack', n).cond.args) + 1
    BY <1>1, <2>1 DEF Layout, GroupsUnderWay
  <2>3. CASE n = E
    <3>1. n = D - 1 /\ stack # << >> /\ D \in 1..D
      BY <1>0, <1>3, <2>3
    <3>2. Accepts(f) \/ Rejects(f) \/ GroupReturns(f) \/ FindReturns(f)
      BY <1>0, <2>3, <3>1, Returned
    <3>3. Popped(stack, stack')
      BY <3>2 DEF Accepts, Rejects, GroupReturns, FindReturns
    <3>4. ~(Accepts(f) \/ Rejects(f))
      BY <1>2, <2>3, <3>1, <3>3, FinderOf DEF Accepts, Rejects
    <3>5. f.kind = "cond" /\ ret' \in {"true", "false"}
      BY <3>2, <3>4 DEF GroupReturns, FindReturns, Leaf
    <3>6. D > 1 /\ Level(stack, D - 1).kind = "cond"
      BY <1>0, <1>1, <2>1, <3>1
    <3>7. Level(stack, D - 1).at > 1
      BY <3>1, <3>5, <3>6 DEF Layout, OperandsAsked
    <3> QED
      BY <2>1, <2>2, <3>1, <3>5, <3>7, Facts
  <2> QED
    BY <2>2, <2>3
<1>4. CASE n = D
  <2>0. D \in 1..D /\ stack # << >> /\ f.at \in Nat \ {0} /\ E >= D
    BY <1>0, <1>1, <1>4, Facts
  <2>1. CASE Rests
    BY <1>1, <1>4, <2>1 DEF Rests, Layout, GroupsUnderWay
  <2>2. ASSUME NEW b \in Bean, Enters(b) PROVE FALSE
    <3>1. Leaf(f) /\ Level(stack', D) = f
      BY <2>0, <2>2 DEF Enters, Pushed, SameUpTo
    <3> QED
      BY <1>2, <1>4, <3>1
  <2>3. ASSUME NEW g, NEW c, Asks(f, g, c) PROVE Goal(n)
    <3>1. Level(stack', D) = g /\ g.at = f.at + 1
          /\ (E = D => ret' = c.val /\ ret' \in Outcome)
      BY <1>0, <2>3 DEF Asks, Evaluates, Swapped, Called
    <3>2. f.kind = "cond" /\ g.cond = f.cond /\ f.cond \in Cond /\ f.cond.op \in GroupOps
          /\ f.at \in DOMAIN f.cond.args
      BY <1>1, <1>4, <2>0, <2>3, <3>1, Facts DEF Asks, Operands
    <3>3. f.at <= Len(f.cond.args) /\ Len(f.cond.args) \in Nat
      BY <2>0, <3>2, Ops
    <3>4. "none" \notin Outcome
      BY DEF Outcome
    <3> QED
      BY <1>4, <2>0, <3>1, <3>2, <3>3, <3>4
  <2>4. CASE Accepts(f) \/ Rejects(f) \/ GroupReturns(f) \/ FindReturns(f)
    BY <1>0, <2>0, <2>4 DEF Accepts, Rejects, GroupReturns, FindReturns, Popped
  <2>5. ~Looks(f)
    BY <1>2, <1>4, Fields DEF Looks, Swapped, Leaf
  <2> QED
    BY <2>1, <2>2, <2>3, <2>4, <2>5, Turns DEF Turn
<1>5. CASE n > D
  <2>1. n = D + 1 /\ n = E /\ E > D
    BY <1>0, <1>1, <1>5
  <2>2. PICK c : ret' = "none" /\ Level(stack', n) = CondFrameOf(c, 1, {})
    BY <1>1, <2>1, Kept, Fields
  <2>3. Level(stack', n).cond \in Cond /\ Level(stack', n).at = 1
    BY <1>1, <2>2, LevelTypes, Fields DEF Move
  <2>4. Len(Level(stack', n).cond.args) \in Nat
    BY <1>1, <2>3, Ops
  <2> QED
    BY <2>2, <2>3, <2>4
<1> QED
  BY <1>0, <1>1, <1>3, <1>4, <1>5

LEMMA OperandsAskedStep ==
    ASSUME Inv, Layout, Move
    PROVE  OperandsAsked'
<1> DEFINE D == Len(stack)
           E == Len(stack')
           f == Level(stack, D)
           Goal(n) == /\ Level(stack', n - 1).at > 1
                      /\ Level(stack', n).cond
                            = Level(stack', n - 1).cond.args[Level(stack', n - 1).at - 1]
<1>0. /\ D \in Nat /\ E \in Nat /\ E \in {D - 1, D, D + 1}
      /\ (stack = << >> <=> D = 0)
      /\ \A n \in 1..(D - 1) : Level(stack', n) = Level(stack, n)
  BY Facts, Below
<1>1. SUFFICES ASSUME NEW n \in 1..E, n > 1, Level(stack', n).kind = "cond",
                      Level(stack', n - 1).kind = "cond"
               PROVE  Goal(n)
  BY DEF OperandsAsked
<1>2. CASE n <= D
  <2>1. n \in 1..D /\ n - 1 \in 1..(D - 1) /\ n - 1 \in 1..D /\ n - 1 <= E
    BY <1>0, <1>1, <1>2
  <2>2. Level(stack', n - 1) = Level(stack, n - 1)
    BY <1>0, <2>1
  <2>3. Level(stack, n).kind = "cond" /\ Level(stack', n).cond = Level(stack, n).cond
    BY <1>1, <2>1, Kept, Facts
  <2> QED
    BY <1>1, <2>1, <2>2, <2>3 DEF Layout, OperandsAsked
<1>3. CASE n > D
  <2>1. n = D + 1 /\ E > D /\ n - 1 = D
    BY <1>0, <1>1, <1>3
  <2>2. PICK g, c : stack # << >> /\ Asks(f, g, c) /\ Level(stack', D) = g
                    /\ Level(stack', D + 1) = CondFrameOf(c, 1, {})
    BY <1>1, <2>1, Kept, Fields
  <2>3. D \in 1..D /\ g.kind = "cond" /\ g.kind = f.kind
    <3>1. D \in 1..D
      BY <1>0, <2>2
    <3>2. Level(stack', D).kind = "cond"
      BY <1>1, <2>1
    <3> QED
      BY <2>2, <3>1, <3>2 DEF Asks
  <2>4. f.at \in Nat \ {0} /\ g.at = f.at + 1 /\ g.cond = f.cond /\ c = f.cond.args[f.at]
    BY <2>2, <2>3, Facts DEF Asks, Operands
  <2> QED
    BY <2>1, <2>2, <2>4, Fields
<1> QED
  BY <1>0, <1>1, <1>2, <1>3

LEMMA FindersSelectStep ==
    ASSUME Inv, Layout, Move
    PROVE  FindersSelect'
<1> DEFINE D == Len(stack)
           E == Len(stack')
<1>0. /\ D \in Nat /\ E \in Nat /\ E \in {D - 1, D, D + 1}
      /\ (stack = << >> <=> D = 0)
      /\ \A n \in 1..(D - 1) : Level(stack', n) = Level(stack, n)
  BY Facts, Below
<1>1. SUFFICES ASSUME NEW n \in 1..E, n > 1, Level(stack', n).kind = "bean"
               PROVE  Level(stack', n).bean \in Level(stack', n - 1).cond.sel
  BY DEF FindersSelect
<1>2. CASE n <= D
  <2>1. n \in 1..D /\ n - 1 \in 1..(D - 1)
    BY <1>0, <1>1, <1>2
  <2>2. Level(stack', n - 1) = Level(stack, n - 1)
    BY <1>0, <2>1
  <2>3. Level(stack, n).kind = "bean" /\ Level(stack', n).bean = Level(stack, n).bean
    BY <1>1, <2>1, Kept, Facts
  <2> QED
    BY <1>1, <2>1, <2>2, <2>3 DEF Layout, FindersSelect
<1>3. CASE n > D
  <2>1. n = D + 1 /\ E > D /\ n - 1 = D /\ stack # << >> /\ D \in 1..D
    BY <1>0, <1>1, <1>3
  <2>2. PICK b \in Bean : Enters(b) /\ Level(stack', D + 1) = BeanFrameOf(b, 1)
    BY <1>1, <2>1, Kept, Fields
  <2>3. b \in Level(stack, D).cond.sel /\ Level(stack', D) = Level(stack, D)
    BY <2>1, <2>2 DEF Enters, Pushed, SameUpTo
  <2> QED
    BY <2>1, <2>2, <2>3, Fields
<1> QED
  BY <1>0, <1>1, <1>2, <1>3

LEMMA WithinTargetsStep ==
    ASSUME Inv, Layout, Move
    PROVE  WithinTargets'
<1> DEFINE D == Len(stack)
           E == Len(stack')
           f == Level(stack, D)
<1>0. /\ D \in Nat /\ E \in Nat /\ E \in {D - 1, D, D + 1} /\ Required' = Required
  BY Facts, Below DEF Move
<1>1. SUFFICES ASSUME NEW m \in 1..E, NEW n \in 1..E, For(stack', m, n), m < n
               PROVE  Asked[Level(stack', n).cond] \ {Level(stack', m).bean}
                         \subseteq Targets(Required, Level(stack', m).bean)
  BY <1>0 DEF WithinTargets
<1>2. n \in (m + 1)..n
  BY <1>0, <1>1
<1>3. Level(stack', n).kind = "cond"
  BY <1>1, <1>2 DEF For
<1>4. CASE n <= D
  <2>1. n \in 1..D /\ m \in 1..D
    BY <1>0, <1>1, <1>4
  <2>2. For(stack, m, n) /\ Level(stack', m).bean = Level(stack, m).bean
    BY <1>1, <1>4, ForBefore
  <2>3. Level(stack', n).cond = Level(stack, n).cond
    BY <1>1, <1>3, <2>1, Kept, Facts
  <2> QED
    BY <1>1, <2>1, <2>2, <2>3 DEF Layout, WithinTargets
<1>5. CASE n > D
  <2>1. n = D + 1 /\ E > D /\ m <= D
    BY <1>0, <1>1, <1>5
  <2>2. For(stack, m, D) /\ Level(stack', m).bean = Level(stack, m).bean
    BY <1>1, <1>5, <2>1, ForBefore
  <2>3. PICK g, c : stack # << >> /\ Asks(f, g, c) /\ Level(stack', D + 1) = CondFrameOf(c, 1, {})
    BY <1>3, <2>1, Kept, Fields
  <2>4. Level(stack', n).cond = c /\ f.at \in DOMAIN Operands(Required, f)
        /\ c = Operands(Required, f)[f.at] /\ m \in 1..D /\ D \in 1..D
    BY <1>0, <1>1, <2>1, <2>3, Fields DEF Asks
  <2>5. CASE f.kind = "bean"
    <3>1. m = D
      <4>1. m < D => D \in (m + 1)..D
        BY <2>4
      <4> QED
        BY <2>2, <2>4, <2>5, <4>1 DEF For
    <3>2. c = Required[f.bean][f.at] /\ f.at \in DOMAIN Required[f.bean]
      BY <2>4, <2>5 DEF Operands
    <3> QED
      BY <2>2, <2>4, <3>1, <3>2 DEF Targets
  <2>6. CASE f.kind = "cond"
    <3>1. f.cond \in Cond /\ f.cond.op \in GroupOps /\ f.at \in DOMAIN f.cond.args
          /\ c = f.cond.args[f.at]
      BY <2>3, <2>4, <2>6, Facts DEF Asks, Operands
    <3>2. Asked[c] \subseteq Asked[f.cond]
      BY <3>1, AskedFacts
    <3>3. m < D
      BY <2>2, <2>4, <2>6 DEF For
    <3>4. Asked[f.cond] \ {Level(stack, m).bean} \subseteq Targets(Required, Level(stack, m).bean)
      BY <2>2, <2>4, <3>3 DEF Layout, WithinTargets
    <3> QED
      BY <2>2, <2>4, <3>2, <3>4
  <2> QED
    BY <2>4, <2>5, <2>6, Facts
<1> QED
  BY <1>0, <1>1, <1>4, <1>5

LEMMA LayoutStep ==
    ASSUME Inv, Layout, Move
    PROVE  Layout'
BY GroupsUnderWayStep, OperandsAskedStep, WithinTargetsStep, FindersSelectStep DEF Layout

-----------------------------------------------------------------------------
(* Every move agrees with the set.                                             *)

\* A Find comes only upon definitions with a decision, but for the one that it
\* works for: the others on the path would be asked for in a cycle.
LEMMA Fresh ==
    ASSUME Inv, Layout, phase = "resolve", Layered(Required), stack # << >>,
           NEW f, f = Level(stack, Len(stack)), Leaf(f),
           NEW m \in 1..Len(stack), For(stack, m, Len(stack)),
           NEW x \in Bean, x \in f.cond.sel, x # Level(stack, m).bean
    PROVE  status[x] # "resolving"
<1> DEFINE D == Len(stack)
           Call(n) == n \in 1..D /\ Level(stack, n).kind = "bean"
<1> SUFFICES ASSUME status[x] = "resolving" PROVE FALSE
  OBVIOUS
<1>0. /\ D \in Nat /\ D \in 1..D /\ m \in Nat /\ f.kind = "cond" /\ f.cond \in Cond
      /\ f.cond.op \in LeafOps
      /\ \A n \in 1..D : Level(stack, n).kind \in {"bean", "cond"}
      /\ \A n : Call(n) => Level(stack, n).bean \in Bean
      /\ BeansUnderWay /\ ResolvedOnce /\ WithinTargets /\ FindersSelect
  BY Facts DEF Inv, Layout, Leaf
<1>1. Call(m) /\ m < D /\ \A n \in (m + 1)..D : Level(stack, n).kind = "cond"
  BY <1>0 DEF For
<1>2. PICK j \in 1..D : Level(stack, j).kind = "bean" /\ Level(stack, j).bean = x
  BY DEF Inv, HasCall
<1>3. j < m
  <2>1. j \notin (m + 1)..D
    BY <1>1, <1>2
  <2> QED
    BY <1>0, <1>2, <2>1
<1> DEFINE X == {b \in Bean : \E k \in 1..D : Call(k) /\ j <= k /\ b = Level(stack, k).bean}
<1>4. PICK y \in X : Targets(Required, y) \cap X = {}
  <2>1. X \in SUBSET Bean
    OBVIOUS
  <2>2. x \in X
    BY <1>2
  <2> HIDE DEF X
  <2> QED
    BY <2>1, <2>2 DEF Layered
<1>5. PICK k \in 1..D : Call(k) /\ j <= k /\ y = Level(stack, k).bean
  OBVIOUS
<1>6. k <= m
  <2>1. k \notin (m + 1)..D
    BY <1>1, <1>5
  <2> QED
    BY <1>0, <2>1
<1>7. CASE k = m
  <2>1. Asked[f.cond] = f.cond.sel
    BY <1>0, AskedFacts
  <2>2. Asked[f.cond] \ {y} \subseteq Targets(Required, y)
    BY <1>0, <1>1, <1>5, <1>7 DEF WithinTargets
  <2>3. x \in X
    BY <1>2
  <2> HIDE DEF X
  <2> QED
    BY <1>4, <1>5, <1>7, <2>1, <2>2, <2>3
<1>8. CASE k < m
  <2> DEFINE N == {l \in Nat : l \in (k + 1)..m /\ Call(l)}
  <2>1. m \in N
    BY <1>0, <1>1, <1>8
  <2>2. PICK i \in N : \A l \in N : ~ <<l, i>> \in OpToRel(<, Nat)
    <3>1. N \subseteq Nat
      OBVIOUS
    <3> HIDE DEF N
    <3> QED
      BY <2>1, <3>1, NatLessThanWellFounded, WFMin
  <2>3. i \in Nat /\ i > k /\ i <= m /\ i \in 1..D /\ Call(i) /\ i - 1 \in 1..D /\ i > 1
        /\ k <= i - 1
    BY <1>0
  <2>4. \A l \in (k + 1)..(i - 1) : Level(stack, l).kind = "cond"
    <3>1. ASSUME NEW l \in (k + 1)..(i - 1), Call(l) PROVE FALSE
      <4>1. l \in N /\ l < i /\ l \in Nat
        BY <1>0, <2>3, <3>1
      <4> HIDE DEF N
      <4> QED
        BY <2>2, <2>3, <4>1 DEF OpToRel
    <3>2. \A l \in (k + 1)..(i - 1) : l \in 1..D
      BY <1>0, <2>3
    <3> QED
      BY <1>0, <3>1, <3>2
  <2> HIDE DEF N
  <2>5. For(stack, k, i - 1)
    <3>1. k \in 1..(i - 1)
      BY <1>0, <2>3
    <3> QED
      BY <1>5, <2>4, <3>1 DEF For
  <2>6. Leaf(Level(stack, i - 1)) /\ Level(stack, i).bean \in Level(stack, i - 1).cond.sel
    BY <1>0, <2>3 DEF BeansUnderWay, FindersSelect
  <2>7. k # i - 1
    BY <1>5, <2>6 DEF Leaf
  <2>8. Asked[Level(stack, i - 1).cond] \ {y} \subseteq Targets(Required, y)
    <3>1. k < i - 1
      BY <1>0, <2>3, <2>7
    <3> QED
      BY <1>0, <1>5, <2>3, <2>5, <3>1 DEF WithinTargets
  <2>9. Asked[Level(stack, i - 1).cond] = Level(stack, i - 1).cond.sel
    <3>1. Level(stack, i - 1).cond \in Cond /\ Level(stack, i - 1).cond.op \in LeafOps
      BY <2>3, <2>6, Facts DEF Leaf
    <3> QED
      BY <3>1, AskedFacts
  <2>10. Level(stack, i).bean # y
    BY <1>0, <1>5, <2>3 DEF ResolvedOnce
  <2>11. Level(stack, i).bean \in X
    BY <1>0, <1>5, <2>3
  <2> HIDE DEF X
  <2> QED
    BY <1>4, <2>6, <2>8, <2>9, <2>10, <2>11
<1> QED
  BY <1>0, <1>6, <1>7, <1>8

\* What a group or a Find returns is what its condition means.
LEMMA GroupRight ==
    ASSUME Inv, Layout, stack # << >>, NEW f, f = Level(stack, Len(stack)), GroupReturns(f),
           NEW A, NEW b, Sound(beans, Required, A, b, f), Fits(Required, A, b, f, ret)
    PROVE  ret' = "true" <=> Holds(A, b, f.cond)
<1> DEFINE N == Len(f.cond.args)
           holds(i) == Holds(A, b, f.cond.args[i])
<1>0. /\ Len(stack) \in 1..Len(stack) /\ f.kind = "cond" /\ f.cond.op \in GroupOps
      /\ f.cond \in Cond /\ f.at \in Nat \ {0} /\ LeafOps \cap GroupOps = {}
      /\ ret \in Outcome \cup {"none"} /\ f.cond.op \in {"or", "and", "not", "none"}
  BY Facts DEF GroupReturns, LeafOps, GroupOps
<1>1. N \in Nat /\ DOMAIN f.cond.args = 1..N
  BY <1>0, Ops
<1>2. f.at <= N + 1 /\ (ret = "none" <=> f.at = 1)
  BY <1>0 DEF Layout, GroupsUnderWay
<1>3. ~Leaf(f) /\ Operands(Required, f) = f.cond.args /\ (Demand(f) <=> f.cond.op = "and")
  BY <1>0 DEF Leaf, Operands, Demand
<1>4. \A k \in 1..N : k < f.at - 1 => (holds(k) <=> f.cond.op = "and")
  BY <1>1, <1>3 DEF Sound
<1>5. f.at > 1 => (ret = "true" => holds(f.at - 1)) /\ (ret = "false" => ~holds(f.at - 1))
  BY <1>3 DEF Fits
<1>6. /\ f.cond.op = "or" => (Holds(A, b, f.cond) <=> \E i \in 1..N : holds(i))
      /\ f.cond.op = "and" => (Holds(A, b, f.cond) <=> \A i \in 1..N : holds(i))
      /\ f.cond.op \in {"not", "none"} => (Holds(A, b, f.cond) <=> ~\E i \in 1..N : holds(i))
  BY <1>0, <1>1, HoldsFacts
<1> HIDE DEF holds
<1>7. CASE ret = StopsAt(f.cond.op) /\ ret' = OnStop(f.cond.op)
  <2>1. ret \in {"true", "false"}
    BY <1>7 DEF StopsAt
  <2>2. f.at > 1 /\ f.at - 1 \in 1..N
    BY <1>0, <1>1, <1>2, <2>1
  <2> QED
    BY <1>0, <1>5, <1>6, <1>7, <2>2 DEF StopsAt, OnStop
<1>8. CASE /\ ret \notin {StopsAt(f.cond.op), "err"} /\ f.at \notin DOMAIN f.cond.args
           /\ ret' = OnExhaust(f.cond.op)
  <2>1. f.at = N + 1
    BY <1>0, <1>1, <1>2, <1>8
  <2>2. ASSUME NEW k \in 1..N PROVE holds(k) <=> f.cond.op = "and"
    <3>1. CASE k < f.at - 1
      BY <1>4, <3>1
    <3>2. CASE k = f.at - 1
      <4>1. f.at > 1 /\ ret # "none"
        BY <1>0, <1>2, <3>2
      <4>2. ret = "true" <=> f.cond.op = "and"
        BY <1>0, <1>8, <4>1 DEF StopsAt, Outcome
      <4>3. ret \in {"true", "false"}
        BY <1>0, <1>8, <4>1 DEF Outcome
      <4> QED
        BY <1>5, <3>2, <4>1, <4>2, <4>3
    <3> QED
      BY <1>1, <2>1, <3>1, <3>2
  <2> QED
    BY <1>0, <1>6, <1>8, <2>2 DEF OnExhaust
<1> QED
  BY <1>7, <1>8 DEF GroupReturns

LEMMA FindRight ==
    ASSUME Inv, stack # << >>, NEW f, f = Level(stack, Len(stack)), FindReturns(f),
           NEW A \in SUBSET Bean, A \subseteq ToSet(beans),
           NEW b, Sound(beans, Required, A, b, f)
    PROVE  ret' = "true" <=> Holds(A, b, f.cond)
<1>0. /\ Len(stack) \in 1..Len(stack) /\ Leaf(f) /\ f.cond.op \in LeafOps /\ f.cond \in Cond
      /\ f.at \in Nat \ {0} /\ f.found \in SUBSET Bean /\ f.at \notin DOMAIN beans
      /\ Len(beans) \in Nat /\ DOMAIN beans = 1..Len(beans)
  BY Facts DEF FindReturns, Leaf
<1>1. \A k \in DOMAIN beans : k < f.at
  BY <1>0
<1>2. \A x \in A : \E k \in DOMAIN beans : beans[k] = x
  BY Facts
<1>3. \A x \in Bean : x \in f.found <=> x \in f.cond.sel /\ x # b /\ x \in A
  BY <1>0, <1>1, <1>2 DEF Sound
<1>4. f.found = (f.cond.sel \ {b}) \cap A
  BY <1>0, <1>3
<1>5. Holds(A, b, f.cond) <=> Matched(f.cond.op, (f.cond.sel \ {b}) \cap A)
  BY <1>0, HoldsFacts
<1> QED
  BY <1>4, <1>5 DEF FindReturns

\* What the moves below rely on.
LEMMA RightFacts ==
    ASSUME Inv, NEW A \in SUBSET Bean, Agrees(beans, Required, A)
    PROVE  /\ A \subseteq ToSet(beans)
           /\ \A n \in 1..Len(stack) : Level(stack, n).kind = "bean" =>
                 /\ Level(stack, n).bean \in A <=>
                       \A i \in DOMAIN Required[Level(stack, n).bean] :
                          Holds(A, Level(stack, n).bean, Required[Level(stack, n).bean][i])
                 /\ status[Level(stack, n).bean] = "resolving"
                 /\ For(stack, n, n)
<1>1. BeansUnderWay
  BY DEF Inv
<1>2. \A n \in 1..Len(stack) : n \in 1..n /\ \A k : k \notin (n + 1)..n
  BY Facts
<1> QED
  BY <1>1, <1>2, Facts DEF BeansUnderWay, Agrees, For

LEMMA DecidedRightStep ==
    ASSUME Inv, Layout, Move, NEW A \in SUBSET Bean, Agrees(beans, Required, A), Right(A)
    PROVE  DecidedRight(A)'
<1> DEFINE D == Len(stack)
           f == Level(stack, D)
           b == f.bean
           N == Len(Required[b])
           holds(i) == Holds(A, b, Required[b][i])
           decided(st) == \A x \in Bean : /\ st[x] = "resolved" => x \in A
                                          /\ st[x] = "deleted" => x \notin A
<1>0. /\ decided(status) /\ D \in Nat /\ (stack = << >> <=> D = 0)
      /\ ret \in Outcome \cup {"none"} /\ status \in [Bean -> Status]
  BY Facts DEF Right, DecidedRight
<1> SUFFICES decided(status')
  BY DEF DecidedRight
<1>1. ASSUME stack # << >>, f.kind = "bean"
      PROVE  /\ b \in Bean /\ N \in Nat /\ DOMAIN Required[b] = 1..N
             /\ f.at \in Nat \ {0} /\ f.at <= N + 1
             /\ b \in A <=> \A i \in 1..N : holds(i)
             /\ \A k \in 1..N : k < f.at - 1 => holds(k)
             /\ f.at > 1 => (ret = "true" => holds(f.at - 1)) /\ (ret = "false" => ~holds(f.at - 1))
             /\ (ret = "none" <=> f.at = 1)
  <2>1. D \in 1..D /\ ~Leaf(f) /\ Operands(Required, f) = Required[b] /\ Demand(f)
    BY <1>0, <1>1 DEF Leaf, Operands, Demand
  <2>2. For(stack, D, D) /\ (b \in A <=> \A i \in DOMAIN Required[b] : holds(i))
    BY <1>1, <2>1, RightFacts
  <2>3. Sound(beans, Required, A, b, f) /\ Fits(Required, A, b, f, ret)
    BY <2>1, <2>2 DEF Right, FramesRight, AnswerRight
  <2>4. b \in Bean /\ N \in Nat /\ DOMAIN Required[b] = 1..N /\ f.at \in Nat \ {0}
    BY <1>1, <2>1, Facts
  <2>5. f.at <= N + 1 /\ (ret = "none" <=> f.at = 1)
    BY <1>1, <2>1 DEF Inv, BeansUnderWay, Answered
  <2>6. \A k \in 1..N : k < f.at - 1 => holds(k)
    BY <2>1, <2>3, <2>4 DEF Sound
  <2>7. f.at > 1 => (ret = "true" => holds(f.at - 1)) /\ (ret = "false" => ~holds(f.at - 1))
    BY <2>1, <2>3 DEF Fits
  <2> QED
    BY <2>2, <2>4, <2>5, <2>6, <2>7
<1> HIDE DEF holds, decided
<1>2. CASE Rests \/ (stack # << >> /\ Turn(f) /\ ~Accepts(f) /\ ~Rejects(f))
  <2>1. status' = status
    BY <1>2 DEF Rests, Turn, Asks, Evaluates, GroupReturns, FindReturns, Looks
  <2> QED
    BY <1>0, <2>1
<1>3. CASE \E x \in Bean : Enters(x)
  BY <1>0, <1>3 DEF Enters, decided
<1>4. CASE stack # << >> /\ Accepts(f)
  <2>1. f.kind = "bean" /\ ret \notin {"false", "err"} /\ f.at \notin DOMAIN Required[b]
        /\ status' = [status EXCEPT ![b] = "resolved"]
    BY <1>4 DEF Accepts
  <2>2. f.at = N + 1
    BY <1>1, <1>4, <2>1
  <2>3. ret = "none" \/ ret = "true"
    BY <1>0, <2>1 DEF Outcome
  <2>4. ASSUME NEW i \in 1..N PROVE holds(i)
    <3>1. i < f.at - 1 \/ i = f.at - 1
      BY <1>1, <1>4, <2>1, <2>2
    <3>2. CASE i < f.at - 1
      BY <1>1, <1>4, <2>1, <3>2
    <3>3. CASE i = f.at - 1
      <4>1. f.at > 1 /\ f.at # 1
        BY <1>1, <1>4, <2>1, <3>3
      <4> QED
        BY <1>1, <1>4, <2>1, <2>3, <3>3, <4>1
    <3> QED
      BY <3>1, <3>2, <3>3
  <2>5. b \in A
    BY <1>1, <1>4, <2>1, <2>4
  <2> QED
    BY <1>0, <2>1, <2>5 DEF decided
<1>5. CASE stack # << >> /\ Rejects(f)
  <2>1. f.kind = "bean" /\ ret = "false" /\ status' = [status EXCEPT ![b] = "deleted"]
    BY <1>5 DEF Rejects
  <2>2. f.at > 1 /\ f.at - 1 \in 1..N
    BY <1>1, <1>5, <2>1
  <2>3. b \notin A
    BY <1>1, <1>5, <2>1, <2>2
  <2> QED
    BY <1>0, <2>1, <2>3 DEF decided
<1> QED
  BY <1>2, <1>3, <1>4, <1>5, Turns

\* A Find that looks at a definition treats it as A has it.
LEMMA LooksRight ==
    ASSUME Inv, Layout, phase = "resolve", Layered(Required), stack # << >>,
           NEW f, f = Level(stack, Len(stack)), Looks(f),
           NEW m \in 1..Len(stack), For(stack, m, Len(stack)), NEW A \in SUBSET Bean,
           DecidedRight(A), Sound(beans, Required, A, Level(stack, m).bean, f)
    PROVE  Sound(beans, Required, A, Level(stack, m).bean, Level(stack', Len(stack)))
<1> DEFINE D == Len(stack)
           b == Level(stack, m).bean
           h == Level(stack', D)
           x == beans[f.at]
           passed(n, y) == \E k \in DOMAIN beans : k < n /\ beans[k] = y
<1>0. /\ D \in 1..D /\ Leaf(f) /\ f.kind = "cond" /\ f.cond.op \in LeafOps
      /\ f.at \in DOMAIN beans /\ f.at \in Nat /\ x \in Bean /\ b \in Bean
      /\ DOMAIN beans = 1..Len(beans) /\ Len(beans) \in Nat
      /\ status[b] = "resolving" /\ status \in [Bean -> Status]
  <2>1. Level(stack, m).kind = "bean"
    BY DEF For
  <2> QED
    BY <2>1, Facts DEF Looks, Leaf, Inv, BeansUnderWay
<1>1. \A y \in Bean : y \in f.found <=> y \in f.cond.sel /\ y # b /\ y \in A /\ passed(f.at, y)
  BY <1>0 DEF Sound
<1>2. \A y : passed(f.at + 1, y) <=> passed(f.at, y) \/ y = x
  <2>1. \A k \in DOMAIN beans : k < f.at + 1 <=> k < f.at \/ k = f.at
    BY <1>0
  <2> QED
    BY <1>0, <2>1
<1>3. h.kind = "cond" /\ h.cond = f.cond /\ h.at = f.at + 1
      /\ \/ Skipped(x, f.cond) /\ h.found = f.found
         \/ ~Skipped(x, f.cond) /\ status[x] # "default" /\ h.found = f.found \cup {x}
  BY Fields DEF Looks, Swapped
<1> HIDE DEF passed, x
<1>4. \A y \in Bean : y \in h.found <=> y \in f.cond.sel /\ y # b /\ y \in A /\ passed(f.at + 1, y)
  <2>1. CASE Skipped(x, f.cond)
    <3>1. ~(x \in f.cond.sel /\ x # b /\ x \in A)
      <4>1. CASE status[x] = "resolving"
        BY <1>0, <4>1, Fresh
      <4>2. CASE status[x] = "deleted"
        BY <1>0, <4>2 DEF DecidedRight
      <4> QED
        BY <2>1, <4>1, <4>2 DEF Skipped
    <3> QED
      BY <1>1, <1>2, <1>3, <2>1, <3>1
  <2>2. CASE ~Skipped(x, f.cond)
    <3>1. status[x] = "resolved" /\ x \in f.cond.sel
      BY <1>0, <1>3, <2>2 DEF Skipped, Status
    <3>2. x \in A /\ x # b
      BY <1>0, <3>1 DEF DecidedRight
    <3> QED
      BY <1>1, <1>2, <1>3, <2>2, <3>1, <3>2
  <2> QED
    BY <2>1, <2>2
<1> QED
  BY <1>0, <1>3, <1>4 DEF Sound, Leaf, passed

\* A function that goes on has the operand behind it as it has to be.
LEMMA AsksRight ==
    ASSUME Inv, stack # << >>, NEW f, f = Level(stack, Len(stack)), NEW g, NEW c, Asks(f, g, c),
           NEW A, NEW b, Sound(beans, Required, A, b, f), Fits(Required, A, b, f, ret)
    PROVE  Sound(beans, Required, A, b, g)
<1> DEFINE ops == Operands(Required, f)
<1>0. Len(stack) \in 1..Len(stack) /\ f.at \in Nat \ {0}
  BY Facts
<1>1. /\ ~Leaf(f) /\ ~Leaf(g) /\ g.at = f.at + 1
      /\ f.kind \in {"bean", "cond"}
  BY <1>0, Facts DEF Asks
<1>2. Operands(Required, g) = ops /\ (Demand(g) <=> Demand(f))
  BY <1>1 DEF Asks, Operands, Demand
<1>3. DOMAIN ops \subseteq Nat \ {0}
  <2>1. CASE f.kind = "bean"
    BY <1>0, <2>1, Facts DEF Operands
  <2>2. CASE f.kind = "cond"
    <3>1. f.cond \in Cond /\ f.cond.op \in GroupOps
      BY <1>0, <2>2, Facts DEF Asks
    <3>2. f.cond.args \in Seq(Cond)
      BY <3>1, Ops
    <3> QED
      BY <2>2, <3>2 DEF Operands
  <2> QED
    BY <1>1, <2>1, <2>2
<1> HIDE DEF ops
<1>4. ASSUME NEW k \in DOMAIN ops, k < g.at - 1
      PROVE  Holds(A, b, ops[k]) <=> Demand(g)
  <2>1. k < f.at - 1 \/ (k = f.at - 1 /\ f.at > 1 /\ f.at # 1)
    BY <1>0, <1>1, <1>3, <1>4
  <2>2. CASE k < f.at - 1
    BY <1>1, <1>2, <2>2 DEF Sound, ops
  <2>3. CASE k = f.at - 1 /\ f.at > 1 /\ f.at # 1
    <3>1. ret \in {"true", "false"} /\ (ret = "true" <=> Demand(f))
      BY <2>3 DEF Asks
    <3>2. /\ ret = "true" => Holds(A, b, ops[k])
          /\ ret = "false" => ~Holds(A, b, ops[k])
      BY <1>1, <2>3 DEF Fits, ops
    <3> QED
      BY <1>2, <3>1, <3>2
  <2> QED
    BY <2>1, <2>2, <2>3
<1> QED
  BY <1>1, <1>2, <1>4 DEF Sound

LEMMA FramesRightStep ==
    ASSUME Inv, Layout, Move, phase = "resolve", Layered(Required),
           NEW A \in SUBSET Bean, Agrees(beans, Required, A), Right(A)
    PROVE  FramesRight(A)'
<1> DEFINE D == Len(stack)
           E == Len(stack')
           f == Level(stack, D)
           sound(b, h) == Sound(beans, Required, A, b, h)
<1>0. /\ D \in Nat /\ E \in Nat /\ E \in {D - 1, D, D + 1}
      /\ (stack = << >> <=> D = 0)
      /\ \A n \in 1..(D - 1) : Level(stack', n) = Level(stack, n)
      /\ Required' = Required /\ beans' = beans
  BY Facts, Below DEF Move
<1>1. \A m, n \in 1..D : For(stack, m, n) => sound(Level(stack, m).bean, Level(stack, n))
  BY DEF Right, FramesRight
<1> HIDE DEF sound
<1>2. SUFFICES ASSUME NEW m \in 1..E, NEW n \in 1..E, For(stack', m, n)
               PROVE  sound(Level(stack', m).bean, Level(stack', n))
  BY <1>0 DEF FramesRight, sound
<1>3. m \in Nat /\ n \in Nat /\ 1 <= m /\ m <= n
  BY <1>0, <1>2, ForBefore
<1>4. CASE n <= D
  <2>1. m \in 1..D /\ n \in 1..D /\ stack # << >> /\ D \in 1..D /\ (n < D \/ n = D)
    BY <1>0, <1>3, <1>4
  <2>2. For(stack, m, n) /\ Level(stack', m).bean = Level(stack, m).bean
        /\ sound(Level(stack, m).bean, Level(stack, n))
    BY <1>1, <1>2, <1>4, <2>1, ForBefore
  <2>3. CASE n < D
    <3>1. Level(stack', n) = Level(stack, n)
      BY <1>0, <2>1, <2>3
    <3> QED
      BY <2>2, <3>1
  <2>4. CASE n = D
    <3>1. CASE Rests
      BY <2>2, <3>1 DEF Rests
    <3>2. CASE \E b \in Bean : Enters(b)
      <4>1. Level(stack', D) = f
        BY <2>1, <3>2 DEF Enters, Pushed, SameUpTo
      <4> QED
        BY <2>2, <2>4, <4>1
    <3>3. ASSUME NEW g, NEW c, Asks(f, g, c)
          PROVE  sound(Level(stack', m).bean, Level(stack', n))
      <4>1. Level(stack', D) = g
        BY <3>3 DEF Asks, Evaluates, Swapped, Called
      <4>2. Fits(Required, A, Level(stack, m).bean, f, ret)
        BY <2>1, <2>2, <2>4 DEF Right, AnswerRight
      <4>3. sound(Level(stack, m).bean, g)
        BY <2>1, <2>2, <2>4, <3>3, <4>2, AsksRight DEF sound
      <4> QED
        BY <2>2, <2>4, <4>1, <4>3
    <3>4. ~(Accepts(f) \/ Rejects(f) \/ GroupReturns(f) \/ FindReturns(f))
      BY <1>0, <1>2, <2>4 DEF Accepts, Rejects, GroupReturns, FindReturns, Popped
    <3>5. CASE Looks(f)
      BY <2>1, <2>2, <2>4, <3>5, LooksRight DEF Right, sound
    <3> QED
      BY <3>1, <3>2, <3>3, <3>4, <3>5, Turns DEF Turn
  <2> QED
    BY <2>1, <2>3, <2>4
<1>5. CASE n > D
  <2>1. n = D + 1 /\ E > D
    BY <1>0, <1>2, <1>5
  <2>2. (\E b : Level(stack', n) = BeanFrameOf(b, 1))
        \/ (\E c : Level(stack', n) = CondFrameOf(c, 1, {}))
    BY <2>1, Kept
  <2>3. Level(stack', n).at = 1
        /\ (Level(stack', n).kind = "cond" => Level(stack', n).found = {})
    BY <2>2, Fields
  <2>4. ASSUME ~Leaf(Level(stack', n)), NEW k \in DOMAIN Operands(Required, Level(stack', n))
        PROVE  ~(k < 0)
    <3> DEFINE h == Level(stack', n)
    <3>1. h.kind = "bean" => h.bean \in Bean
      BY <1>2, LevelTypes DEF Move
    <3>2. h.kind = "cond" => h.cond \in Cond /\ h.cond.op \in GroupOps
      <4>1. Len(stack') \in Nat /\ (h.kind = "cond" => h.cond \in Cond)
        BY <1>2, LevelTypes DEF Move
      <4>2. ConditionsAsked'
        BY ConditionsAskedStep
      <4>3. h.kind = "cond" => h.cond.op \in LeafOps \cup GroupOps
        BY <1>2, <4>2 DEF ConditionsAsked
      <4> QED
        BY <2>4, <4>1, <4>3 DEF Leaf
    <3>3. h.kind \in {"bean", "cond"}
      BY <1>2, LevelTypes DEF Move
    <3> HIDE DEF h
    <3>4. Operands(Required, h) \in Seq(Cond)
      BY <3>1, <3>2, <3>3, Facts, Ops DEF Operands
    <3> QED
      BY <2>4, <3>4 DEF h
  <2> QED
    <3>1. CASE Leaf(Level(stack', n))
      <4>1. \A k \in DOMAIN beans : ~(k < 1)
        BY Facts
      <4> QED
        BY <2>3, <3>1, <4>1 DEF Sound, sound, Leaf
    <3>2. CASE ~Leaf(Level(stack', n))
      BY <2>3, <2>4, <3>2 DEF Sound, sound
    <3> QED
      BY <3>1, <3>2
<1> QED
  BY <1>0, <1>3, <1>4, <1>5

LEMMA AnswerRightStep ==
    ASSUME Inv, Layout, Move,
           NEW A \in SUBSET Bean, Agrees(beans, Required, A), Right(A)
    PROVE  AnswerRight(A)'
<1> DEFINE D == Len(stack)
           E == Len(stack')
           f == Level(stack, D)
           fits(b, h, r) == Fits(Required, A, b, h, r)
<1>0. /\ D \in Nat /\ E \in Nat /\ E \in {D - 1, D, D + 1}
      /\ (stack = << >> <=> D = 0) /\ (stack' = << >> <=> E = 0)
      /\ \A n \in 1..(D - 1) : Level(stack', n) = Level(stack, n)
      /\ Required' = Required /\ beans' = beans
  BY Facts, Below DEF Move
<1>1. \A m \in 1..D : For(stack, m, D) =>
         /\ fits(Level(stack, m).bean, f, ret)
         /\ Sound(beans, Required, A, Level(stack, m).bean, f)
  <2>1. D # 0 => D \in 1..D
    BY <1>0
  <2>2. \A m \in 1..D : D # 0
    BY <1>0
  <2> QED
    BY <2>1, <2>2 DEF Right, AnswerRight, FramesRight
<1>2. SUFFICES ASSUME NEW m \in 1..E, For(stack', m, E)
               PROVE  fits(Level(stack', m).bean, Level(stack', E), ret')
  BY <1>0 DEF AnswerRight
<1> DEFINE b == Level(stack', m).bean
           h == Level(stack', E)
<1>3. E \in 1..E /\ m \in Nat /\ m <= E
  BY <1>0, <1>2
<1>4. CASE Rests
  BY <1>1, <1>2, <1>4 DEF Rests
<1>5. CASE E > D
  <2>1. E = D + 1
    BY <1>0, <1>5
  <2>2. h.at = 1
    BY <1>5, <2>1, Kept, Fields
  <2> QED
    BY <2>2 DEF Fits
<1>6. ASSUME stack # << >>, NEW g, NEW c, Asks(f, g, c), E <= D
      PROVE  fits(b, h, ret')
  <2>1. E = D /\ D \in 1..D /\ h = g /\ c.op = "const" /\ ret' = c.val /\ c \in Cond
    BY <1>0, <1>6 DEF Asks, Evaluates, Swapped, Called
  <2>2. f.at \in Nat \ {0} /\ g.at = f.at + 1 /\ g.at - 1 = f.at
        /\ Operands(Required, g) = Operands(Required, f) /\ c = Operands(Required, f)[f.at]
    <3>1. f.at \in Nat \ {0} /\ f.kind \in {"bean", "cond"}
      BY <2>1, Facts
    <3> QED
      BY <1>6, <3>1 DEF Asks, Operands
  <2>3. Holds(A, b, c) <=> c.val = "true"
    <3>1. \A x, B : c \in Cond /\ c.op = "const" => (Holds(B, x, c) <=> c.val = "true")
      BY HoldsFacts
    <3> HIDE DEF b
    <3> QED
      BY <2>1, <3>1
  <2> QED
    BY <2>1, <2>2, <2>3 DEF Fits
<1>7. CASE stack # << >> /\ (Accepts(f) \/ Rejects(f))
  <2>1. Leaf(h)
    BY <1>3, <1>7, FinderOf DEF Accepts, Rejects
  <2> QED
    BY <2>1 DEF Fits
<1>8. CASE stack # << >> /\ (GroupReturns(f) \/ FindReturns(f))
  <2>1. f.kind = "cond" /\ Popped(stack, stack') /\ ret' \in {"true", "false"}
    BY <1>8 DEF GroupReturns, FindReturns, Leaf
  <2>2. /\ E \in 1..D /\ E = D - 1 /\ h = Level(stack, E) /\ ~Leaf(h)
        /\ h.kind = "bean" => h.at > 1 /\ f.cond = Required[h.bean][h.at - 1]
    BY <1>8, <2>1, CallerOf
  <2>3. h.kind = "cond" => h.at > 1 /\ f.cond = h.cond.args[h.at - 1]
    <3>1. D \in 1..D /\ D > 1
      BY <1>0, <1>3, <2>2
    <3> QED
      BY <2>1, <2>2, <3>1 DEF Layout, OperandsAsked
  <2>4. f.cond = Operands(Required, h)[h.at - 1] /\ h.kind \in {"bean", "cond"}
    BY <2>2, <2>3, Facts DEF Operands
  <2>5. m \in 1..D /\ For(stack, m, D) /\ Level(stack, m).bean = b
    <3>1. m \in 1..D /\ For(stack, m, E) /\ Level(stack, m).bean = b
      BY <1>2, <1>3, <2>2, ForBefore
    <3>2. \A k \in (m + 1)..D : k = D \/ k \in (m + 1)..E
      BY <1>0, <1>3, <2>2
    <3>3. m \in 1..D /\ \A k \in (m + 1)..D : Level(stack, k).kind = "cond"
      BY <2>1, <3>1, <3>2 DEF For
    <3> QED
      BY <3>1, <3>3 DEF For
  <2>6. ret' = "true" <=> Holds(A, b, f.cond)
    <3>1. Sound(beans, Required, A, b, f) /\ fits(b, f, ret)
      BY <1>1, <2>5
    <3>2. CASE GroupReturns(f)
      BY <1>8, <3>1, <3>2, GroupRight
    <3>3. CASE FindReturns(f)
      BY <1>8, <3>1, <3>3, FindRight, RightFacts
    <3> QED
      BY <1>8, <3>2, <3>3
  <2> QED
    BY <2>1, <2>4, <2>6 DEF Fits
<1>9. CASE stack # << >> /\ Looks(f)
  <2>1. Leaf(h)
    BY <1>0, <1>9, Fields DEF Looks, Swapped, Leaf
  <2> QED
    BY <2>1 DEF Fits
<1>10. CASE \E x \in Bean : Enters(x)
  <2>1. E > D
    BY <1>0, <1>10 DEF Enters, Pushed
  <2> QED
    BY <1>5, <2>1
<1> QED
  <2>1. E > D \/ E <= D
    BY <1>0
  <2> QED
    BY <1>4, <1>5, <1>6, <1>7, <1>8, <1>9, <1>10, <2>1, Turns DEF Turn

LEMMA RightStep ==
    ASSUME Inv, Layout, Move, phase = "resolve", Layered(Required),
           NEW A \in SUBSET Bean, Agrees(beans, Required, A), Right(A)
    PROVE  Right(A)'
<1>1. DecidedRight(A)' /\ FramesRight(A)' /\ AnswerRight(A)'
  BY DecidedRightStep, FramesRightStep, AnswerRightStep
<1> QED
  BY <1>1 DEF Right

LEMMA AgreementStep ==
    ASSUME Inv, Layout, AllRight, [Next]_vars
    PROVE  Layout' /\ AllRight'
<1>1. CASE phase = "resolve" /\ phase' = "resolve"
  <2>1. Move
    BY <1>1, Moves
  <2>2. Required' = Required /\ beans' = beans
    BY <2>1 DEF Move
  <2>3. ASSUME Layered(Required), NEW A \in SUBSET Bean, Agrees(beans, Required, A)
        PROVE  Right(A)'
    BY <1>1, <2>1, <2>3, RightStep DEF AllRight
  <2> QED
    BY <2>1, <2>2, <2>3, LayoutStep DEF AllRight
<1>2. CASE ~(phase = "resolve" /\ phase' = "resolve")
  <2>1. stack' = << >> /\ status' = status /\ Required' = Required
    BY <1>2, Elsewhere
  <2>2. Layout' /\ \A A : DecidedRight(A)' => Right(A)'
    <3>1. Len(stack') = 0 /\ \A n : n \notin 1..0
      BY <2>1
    <3> QED
      BY <3>1 DEF Layout, GroupsUnderWay, OperandsAsked, WithinTargets, FindersSelect,
                  Right, FramesRight, AnswerRight
  <2>3. ASSUME phase' \in {"resolve", "done"}, Layered(Required)', NEW A \in SUBSET Bean,
               Agrees(beans, Required, A)'
        PROVE  DecidedRight(A)'
    <3>1. CASE \A b \in Bean : status[b] = "default"
      BY <2>1, <3>1 DEF DecidedRight
    <3>2. CASE phase' = "done" /\ beans' = beans /\ phase \in {"resolve", "done"}
      <4>1. Right(A)
        BY <2>1, <2>3, <3>2 DEF AllRight
      <4> QED
        BY <2>1, <4>1 DEF Right, DecidedRight
    <3> QED
      BY <1>2, <2>3, <3>1, <3>2, Elsewhere
  <2> QED
    BY <2>2, <2>3 DEF AllRight
<1> QED
  BY <1>1, <1>2

LEMMA AgreementInvariance == Spec => [](Inv /\ Layout /\ AllRight)
<1>1. Init => Inv /\ Layout /\ AllRight
  <2> SUFFICES ASSUME Init PROVE Inv /\ Layout /\ AllRight
    OBVIOUS
  <2>1. stack = << >> /\ phase = "provide"
    BY DEF Init
  <2>2. Len(stack) = 0 /\ \A n : n \notin 1..0
    BY <2>1
  <2>3. Layout
    BY <2>2 DEF Layout, GroupsUnderWay, OperandsAsked, WithinTargets, FindersSelect
  <2> QED
    BY <2>1, <2>3, InvInit DEF AllRight
<1>2. Inv /\ Layout /\ AllRight /\ [Next]_vars => (Inv /\ Layout /\ AllRight)'
  BY InvStep, AgreementStep
<1> QED
  BY <1>1, <1>2, PTL DEF Spec

\* In the property's words.
LEMMA ConsistentSets ==
    ASSUME Inv, NEW A \in SUBSET Bean
    PROVE  /\ Stratified <=> Layered(Required)
           /\ Consistent(A) <=> Agrees(beans, Required, A)
<1>1. \A b \in Bean : Required[b] = Conditions(b)
  BY DEF Required
<1>2. \A b \in Bean : AsksFor(b) = Targets(Required, b)
  BY <1>1 DEF AsksFor, Targets
<1>3. \A b : b \in A \/ b \in ToSet(beans) => b \in Bean
  BY Facts
<1> DEFINE stays(b) == b \in ToSet(beans) /\ \A i \in DOMAIN Conditions(b) :
                          Meaning(b, A)[Conditions(b)[i]]
<1>4. Agrees(beans, Required, A) <=> \A b \in Bean : b \in A <=> stays(b)
  BY <1>1 DEF Agrees, Holds
<1>5. Consistent(A) <=> \A b : b \in A <=> stays(b)
  BY DEF Consistent
<1> QED
  BY <1>2, <1>3, <1>4, <1>5 DEF Stratified, Layered

\* When no definition's conditions come back to it through other definitions,
\* there is a set of definitions with which all conditions agree, and every
\* decision taken is the one it says: those of the loop of resolveBeans and
\* those taken early, inside a Find on behalf of another definition, in any
\* order of registration.
THEOREM Stratification == Spec => []StratifiedOutcome
<1>1. Inv /\ Layout /\ AllRight => StratifiedOutcome
  <2> SUFFICES ASSUME Inv, AllRight, phase \in {"resolve", "done"}, Stratified
               PROVE  \E A \in SUBSET ToSet(beans) :
                         /\ Consistent(A)
                         /\ \A b \in ToSet(beans) : /\ status[b] = "resolved" => b \in A
                                                    /\ status[b] = "deleted" => b \notin A
    BY DEF StratifiedOutcome
  <2>1. Layered(Required)
    BY ConsistentSets
  <2>2. PICK A \in SUBSET Bean : Agrees(beans, Required, A)
    BY <2>1, Agreement, Facts
  <2>3. DecidedRight(A)
    BY <2>1, <2>2 DEF AllRight, Right
  <2>4. A \subseteq ToSet(beans) /\ \A b \in ToSet(beans) : b \in Bean
    BY <2>2, RightFacts, Facts
  <2>5. Consistent(A)
    BY <2>2, ConsistentSets
  <2> QED
    BY <2>3, <2>4, <2>5 DEF DecidedRight
<1> QED
  BY <1>1, AgreementInvariance, PTL

\* The definitions that such a Refresh leaves active are the only set with
\* which all conditions agree.
THEOREM SoleOutcome ==
    Spec => [](phase = "done" /\ Stratified =>
                 \A A \in SUBSET ToSet(beans) : Consistent(A) <=> A = Active)
<1>1. Inv /\ Layout /\ AllRight =>
         (phase = "done" /\ Stratified =>
             \A A \in SUBSET ToSet(beans) : Consistent(A) <=> A = Active)
  <2> SUFFICES ASSUME Inv, AllRight, phase = "done", Stratified
               PROVE  \A A \in SUBSET ToSet(beans) : Consistent(A) <=> A = Active
    OBVIOUS
  <2>1. \A b \in ToSet(beans) : b \in Bean /\ status[b] \in {"resolved", "deleted"}
    BY Decided
  <2>2. ASSUME NEW A \in SUBSET ToSet(beans), Consistent(A) PROVE A = Active
    <3>1. A \in SUBSET Bean
      BY <2>1
    <3>2. DecidedRight(A)
      BY <2>2, <3>1, ConsistentSets DEF AllRight, Right
    <3> QED
      BY <2>1, <3>2 DEF DecidedRight, Active
  <2>3. Layered(Required)
    BY ConsistentSets
  <2>4. PICK A \in SUBSET Bean : Agrees(beans, Required, A)
    BY <2>3, Agreement, Facts
  <2>5. Consistent(A) /\ A \in SUBSET ToSet(beans)
    BY <2>4, ConsistentSets, RightFacts
  <2> QED
    BY <2>2, <2>5
<1> QED
  BY <1>1, AgreementInvariance, PTL
-----------------------------------------------------------------------------
(* The depth of the recursion.                                              *)

\* Every frame works for a resolveBean, itself or one below it.
LEMMA Owner ==
    ASSUME Inv, NEW n \in 1..Len(stack)
    PROVE  \E m \in 1..n : For(stack, m, n)
<1> DEFINE D == Len(stack)
           Works == {i \in Nat : i \in 1..D => \E m \in 1..i : For(stack, m, i)}
<1>1. /\ D \in Nat
      /\ \A i \in 1..D : Level(stack, i).kind \in {"bean", "cond"}
      /\ \A i \in 1..D : Level(stack, i).kind = "cond" => i > 1
  BY Facts DEF Inv, ConditionsAsked
<1> HIDE DEF D
<1>2. ASSUME NEW i \in Nat, \A j \in Nat : j < i => j \in Works
      PROVE  i \in Works
  <2> SUFFICES ASSUME i \in 1..D PROVE \E m \in 1..i : For(stack, m, i)
    OBVIOUS
  <2>1. CASE Level(stack, i).kind = "bean"
    <3>1. i \in 1..i /\ (i + 1)..i = {}
      BY <1>1
    <3>2. For(stack, i, i)
      BY <2>1, <3>1 DEF For
    <3> QED
      BY <3>1, <3>2
  <2>2. CASE Level(stack, i).kind = "cond"
    <3>1. i - 1 \in Nat /\ i - 1 < i /\ i - 1 \in 1..D
      BY <1>1, <2>2
    <3>2. PICK m \in 1..(i - 1) : For(stack, m, i - 1)
      BY <1>2, <3>1
    <3>3. m \in 1..i /\ \A k \in (m + 1)..i : k \in (m + 1)..(i - 1) \/ k = i
      BY <3>1
    <3>4. For(stack, m, i)
      BY <2>2, <3>2, <3>3 DEF For
    <3> QED
      BY <3>3, <3>4
  <2> QED
    BY <1>1, <2>1, <2>2
<1>3. Works = Nat
  <2>1. Works \in SUBSET Nat
    OBVIOUS
  <2> HIDE DEF Works
  <2> QED
    BY <1>2, <2>1, AllNumbers
<1>4. n \in Works /\ n \in 1..D
  <2> HIDE DEF Works
  <2> QED
    BY <1>1, <1>3 DEF D
<1> QED
  BY <1>4

\* A condition that a group evaluates is less deeply nested than the group.
LEMMA Descends ==
    ASSUME Inv, Layout, NEW n \in 1..Len(stack), n > 1,
           Level(stack, n).kind = "cond", Level(stack, n - 1).kind = "cond"
    PROVE  /\ Nesting[Level(stack, n).cond] < Nesting[Level(stack, n - 1).cond]
           /\ Nesting[Level(stack, n).cond] \in Nat /\ Nesting[Level(stack, n - 1).cond] \in Nat
<1>0. n - 1 \in 1..Len(stack)
  BY Facts
<1>1. PICK c \in Cond : c = Level(stack, n - 1).cond
  BY <1>0, Facts
<1>2. PICK i \in Nat \ {0} : i = Level(stack, n - 1).at
  BY <1>0, Facts
<1>3. c.op \in GroupOps
  <2>1. ~Leaf(Level(stack, n - 1))
    BY DEF Inv, ConditionsAsked
  <2>2. c.op \in LeafOps \cup GroupOps
    BY <1>0, <1>1 DEF Inv, ConditionsAsked
  <2> QED
    BY <1>1, <2>1, <2>2 DEF Leaf
<1>4. i <= Len(c.args) + 1
  BY <1>0, <1>1, <1>2, <1>3 DEF Layout, GroupsUnderWay
<1>5. i > 1 /\ Level(stack, n).cond = c.args[i - 1]
  BY <1>1, <1>2 DEF Layout, OperandsAsked
<1>6. i - 1 \in DOMAIN c.args
  <2>1. c.args \in Seq(Cond)
    BY <1>3, Ops
  <2> QED
    BY <1>4, <1>5, <2>1
<1>7. Nesting[c.args[i - 1]] < Nesting[c]
  BY <1>3, <1>6, NestingAssumption
<1>8. Level(stack, n).cond \in Cond
  BY Facts
<1> QED
  BY <1>1, <1>5, <1>7, <1>8, NestingAssumption

\* So are all the conditions evaluated for the same resolveBean after it.
LEMMA DescendsBetween ==
    ASSUME Inv, Layout, NEW i \in 1..Len(stack), NEW n \in 1..Len(stack), i < n,
           \A k \in i..n : Level(stack, k).kind = "cond"
    PROVE  Nesting[Level(stack, n).cond] < Nesting[Level(stack, i).cond]
<1> DEFINE D == Len(stack)
           Lower == {j \in Nat : j \in (i + 1)..n =>
                        /\ Nesting[Level(stack, j).cond] \in Nat
                        /\ Nesting[Level(stack, j).cond] < Nesting[Level(stack, i).cond]}
<1>1. D \in Nat
  BY Facts
<1>2. ASSUME NEW j \in Nat, \A k \in Nat : k < j => k \in Lower
      PROVE  j \in Lower
  <2> SUFFICES ASSUME j \in (i + 1)..n
               PROVE  /\ Nesting[Level(stack, j).cond] \in Nat
                      /\ Nesting[Level(stack, j).cond] < Nesting[Level(stack, i).cond]
    OBVIOUS
  <2>1. /\ j \in 1..D /\ j > 1 /\ j \in i..n /\ j - 1 \in i..n
        /\ j - 1 \in Nat /\ j - 1 < j
        /\ j - 1 = i \/ j - 1 \in (i + 1)..n
    BY <1>1
  <2>2. /\ Nesting[Level(stack, j).cond] < Nesting[Level(stack, j - 1).cond]
        /\ Nesting[Level(stack, j).cond] \in Nat
        /\ Nesting[Level(stack, j - 1).cond] \in Nat
    BY <2>1, Descends
  <2>3. CASE j - 1 = i
    BY <2>2, <2>3
  <2>4. CASE j - 1 \in (i + 1)..n
    <3>1. Nesting[Level(stack, j - 1).cond] < Nesting[Level(stack, i).cond]
      BY <1>2, <2>1, <2>4
    <3>2. Nesting[Level(stack, i).cond] \in Nat
      <4>1. Level(stack, i).kind = "cond"
        OBVIOUS
      <4>2. Level(stack, i).cond \in Cond
        BY <4>1, Facts
      <4> QED
        BY <4>2, NestingAssumption
    <3> QED
      BY <2>2, <3>1, <3>2
  <2> QED
    BY <2>1, <2>3, <2>4
<1>3. Lower = Nat
  <2>1. Lower \in SUBSET Nat
    OBVIOUS
  <2> HIDE DEF Lower
  <2> QED
    BY <1>2, <2>1, AllNumbers
<1>4. n \in Lower /\ n \in (i + 1)..n
  <2> HIDE DEF Lower
  <2> QED
    BY <1>1, <1>3
<1> QED
  BY <1>4

\* A frame is told from all others by its resolveBean and by how deeply its
\* condition is nested.
LEMMA StackBound ==
    ASSUME Inv, Layout, IsFiniteSet(Bean),
           NEW K \in Nat, \A c \in Cond : Nesting[c] < K
    PROVE  Len(stack) <= Cardinality(Bean) * (K + 1)
<1> DEFINE S == 1..Len(stack)
           T == Bean \X (0..K)
           owner(n) == CHOOSE m \in 1..n : For(stack, m, n)
           rank(n) == IF Level(stack, n).kind = "bean" THEN K ELSE Nesting[Level(stack, n).cond]
           place == [n \in S |-> << Level(stack, owner(n)).bean, rank(n) >>]
<1>1. Len(stack) \in Nat
  BY Facts
<1>2. ASSUME NEW n \in S
      PROVE  /\ owner(n) \in 1..n /\ For(stack, owner(n), n)
             /\ owner(n) \in S /\ Level(stack, owner(n)).kind = "bean"
             /\ Level(stack, owner(n)).bean \in Bean
  <2>1. owner(n) \in 1..n /\ For(stack, owner(n), n)
    BY Owner
  <2> HIDE DEF owner
  <2>2. owner(n) \in S /\ Level(stack, owner(n)).kind = "bean"
    BY <1>1, <2>1 DEF For
  <2> QED
    BY <2>1, <2>2, Facts
<1>3. ASSUME NEW n \in S
      PROVE  /\ rank(n) \in 0..K
             /\ Level(stack, n).kind = "cond" =>
                   rank(n) = Nesting[Level(stack, n).cond] /\ rank(n) < K
             /\ Level(stack, n).kind = "bean" => rank(n) = K
             /\ Level(stack, n).kind \in {"bean", "cond"}
  <2>1. /\ Level(stack, n).kind \in {"bean", "cond"}
        /\ Level(stack, n).kind = "cond" => Level(stack, n).cond \in Cond
    BY Facts
  <2>2. Level(stack, n).kind = "cond" =>
           Nesting[Level(stack, n).cond] \in Nat /\ Nesting[Level(stack, n).cond] < K
    BY <2>1, NestingAssumption
  <2> QED
    BY <2>1, <2>2
<1> HIDE DEF owner, rank
\* Of two frames that work for the same resolveBean, the outer one has the higher rank.
<1>4. ASSUME NEW i \in S, NEW n \in S, i < n, owner(i) = owner(n)
      PROVE  rank(i) # rank(n)
  <2>1. PICK m \in S : m = owner(i) /\ For(stack, m, i) /\ For(stack, m, n)
    BY <1>2, <1>4
  <2>2. /\ m \in 1..i /\ m < n /\ n \in (m + 1)..n
        /\ \A k \in (m + 1)..n : Level(stack, k).kind = "cond"
    BY <1>1, <1>4, <2>1 DEF For
  <2>3. rank(n) = Nesting[Level(stack, n).cond] /\ rank(n) < K
    BY <1>3, <2>2
  <2>4. CASE i = m
    <3>1. Level(stack, i).kind = "bean"
      BY <2>1, <2>4 DEF For
    <3> QED
      BY <1>3, <2>3, <3>1
  <2>5. CASE i # m
    <3>1. i \in (m + 1)..n /\ \A k \in i..n : k \in (m + 1)..n
      BY <1>1, <1>4, <2>2, <2>5
    <3>2. \A k \in i..n : Level(stack, k).kind = "cond"
      BY <2>2, <3>1
    <3>3. Nesting[Level(stack, n).cond] < Nesting[Level(stack, i).cond]
      BY <1>4, <3>2, DescendsBetween
    <3>4. rank(i) = Nesting[Level(stack, i).cond] /\ rank(i) \in 0..K /\ rank(n) \in 0..K
      BY <1>3, <2>2, <3>1
    <3> QED
      BY <2>3, <3>3, <3>4
  <2> QED
    BY <2>4, <2>5
<1>5. place \in Injection(S, T)
  <2>1. place \in [S -> T]
    BY <1>2, <1>3
  <2>2. ASSUME NEW i \in S, NEW n \in S, place[i] = place[n] PROVE i = n
    <3>1. Level(stack, owner(i)).bean = Level(stack, owner(n)).bean /\ rank(i) = rank(n)
      BY <2>2
    <3>2. owner(i) = owner(n)
      <4>1. /\ owner(i) \in S /\ Level(stack, owner(i)).kind = "bean"
            /\ owner(n) \in S /\ Level(stack, owner(n)).kind = "bean"
        BY <1>2
      <4> QED
        BY <3>1, <4>1 DEF Inv, ResolvedOnce
    <3>3. ~(i < n) /\ ~(n < i)
      BY <1>4, <3>1, <3>2
    <3> QED
      BY <1>1, <3>3
  <2> HIDE DEF place, S, T
  <2> QED
    BY <2>1, <2>2 DEF Injection, IsInjective
<1>6. IsFiniteSet(T) /\ Cardinality(T) = Cardinality(Bean) * (K + 1)
  <2>1. IsFiniteSet(0..K) /\ Cardinality(0..K) = K + 1
    <3>1. 0 \in Int /\ K \in Int /\ ~(0 > K) /\ K - 0 + 1 = K + 1
      OBVIOUS
    <3> QED
      BY <3>1, FS_Interval
  <2> QED
    BY <2>1, FS_Product
<1>7. Cardinality(S) = Len(stack)
  <2>1. /\ 1 \in Int /\ Len(stack) \in Int
        /\ 1 > Len(stack) => Len(stack) = 0
        /\ Len(stack) - 1 + 1 = Len(stack)
    BY <1>1
  <2>2. Cardinality(1..Len(stack)) = IF 1 > Len(stack) THEN 0 ELSE Len(stack) - 1 + 1
    BY <2>1, FS_Interval
  <2> QED
    BY <2>1, <2>2
<1>8. Cardinality(S) <= Cardinality(T)
  <2> HIDE DEF S, T, place
  <2> QED
    BY <1>5, <1>6, FS_Injection
<1> QED
  BY <1>6, <1>7, <1>8

\* However conditions refer to each other, in cycles too, the recursion of
\* resolveBean and Find has a bounded depth: a definition is on its path at most
\* once, because resolveBean marks it before it looks at its conditions
\* (resolving.go:285-288), and between two definitions there are no more frames
\* than groups are nested.
THEOREM RecursionIsBounded ==
    ASSUME IsFiniteSet(Bean), NEW CONSTANT K \in Nat, \A c \in Cond : Nesting[c] < K
    PROVE  Spec => [](Len(stack) <= Cardinality(Bean) * (K + 1))
<1> DEFINE Bound == Len(stack) <= Cardinality(Bean) * (K + 1)
<1>1. Inv /\ Layout /\ AllRight => Bound
  BY StackBound
<1> HIDE DEF Bound
<1>2. Spec => []Bound
  BY <1>1, AgreementInvariance, PTL
<1> QED
  BY <1>2 DEF Bound
=============================================================================
