------------------------ MODULE BeanInjectingProofs ------------------------
(***************************************************************************)
(* Proofs about BeanInjecting for any set of beans and any needs: a bean   *)
(* is wired once and after its dependencies, the depth of the recursion is *)
(* bounded, what is injected has been built, and beans are destroyed in    *)
(* an order that the sort always finds.                                    *)
(***************************************************************************)
EXTENDS BeanInjecting, FiniteSetTheorems, WellFoundedInduction, TLAPS

-----------------------------------------------------------------------------
(* Types. *)

\* An element of a sequence.
LEMMA SeqElement ==
    ASSUME NEW S, NEW s \in Seq(S), NEW i \in DOMAIN s
    PROVE  s[i] \in S
  OBVIOUS

\* The empty sequence.
LEMMA SeqEmpty ==
    ASSUME NEW S
    PROVE  << >> \in Seq(S)
  OBVIOUS

\* The injection points of a stage are a sequence of points.
LEMMA PointsType ==
    ASSUME program \in ProgramType, NEW b \in Bean,
           NEW stage \in {"depends", "ctor", "fields"}
    PROVE  Points(b, stage) \in Seq(Point)
<1>1. /\ program.depends[b] \in Seq(Bean)
      /\ program.ctor[b] \in Seq(Point)
      /\ program.fields[b] \in Seq(Point)
  BY DEF ProgramType
<1>2. << [cands |-> program.depends[b], many |-> TRUE,
          nullable |-> TRUE, lazy |-> FALSE] >> \in Seq(Point)
  BY <1>1 DEF Point
<1> QED
  BY <1>1, <1>2 DEF Points

\* The innermost frame, and the stack that is left when it goes.
LEMMA TopType ==
    ASSUME stack \in Seq(Frame), stack # << >>
    PROVE  /\ Top \in Frame
           /\ Tail(stack) \in Seq(Frame)
           /\ Top = stack[1]
           /\ Len(Tail(stack)) = Len(stack) - 1
           /\ \A i \in 1..Len(stack) - 1 : Tail(stack)[i] = stack[i + 1]
  BY DEF Top

\* The stack with the innermost frame replaced.
Replaced(f) == << f >> \o Tail(stack)

\* Its type and its elements.
LEMMA ReplacedType ==
    ASSUME stack \in Seq(Frame), stack # << >>, NEW f \in Frame
    PROVE  /\ Replaced(f) \in Seq(Frame)
           /\ Replaced(f) # << >>
           /\ Len(Replaced(f)) = Len(stack)
           /\ Head(Replaced(f)) = f
           /\ Replaced(f)[1] = f
           /\ \A i \in 2..Len(stack) : Replaced(f)[i] = stack[i]
<1>1. Len(stack) \in Nat /\ Len(stack) # 0
  OBVIOUS
<1>2. /\ Tail(stack) \in Seq(Frame) /\ Len(Tail(stack)) = Len(stack) - 1
      /\ \A i \in 1..Len(stack) - 1 : Tail(stack)[i] = stack[i + 1]
  BY TopType
<1>3. << f >> \in Seq(Frame) /\ Len(<< f >>) = 1 /\ << f >>[1] = f
  OBVIOUS
<1>4. /\ Replaced(f) \in Seq(Frame)
      /\ Len(Replaced(f)) = Len(stack)
      /\ Replaced(f)[1] = f
  BY <1>1, <1>2, <1>3 DEF Replaced
<1>5. ASSUME NEW i \in 2..Len(stack) PROVE Replaced(f)[i] = stack[i]
  <2>1. Replaced(f)[i] = Tail(stack)[i - 1]
    BY <1>1, <1>2, <1>3, <1>5 DEF Replaced
  <2>2. i - 1 \in 1..Len(stack) - 1 /\ (i - 1) + 1 = i
    BY <1>1, <1>5
  <2> QED
    BY <1>2, <2>1, <2>2
<1> QED
  BY <1>1, <1>4, <1>5

\* A frame on top of some others.
LEMMA PushedType ==
    ASSUME NEW rest \in Seq(Frame), NEW f \in Frame
    PROVE  /\ << f >> \o rest \in Seq(Frame)
           /\ Len(<< f >> \o rest) = Len(rest) + 1
           /\ (<< f >> \o rest)[1] = f
           /\ \A i \in 1..Len(rest) : (<< f >> \o rest)[i + 1] = rest[i]
  OBVIOUS

Stage  == {"depends", "ctor", "fields"}
Status == {"resolved", "creating", "created", "wired"}

\* Every frame is at some point of some bean's needs.
LEMMA HereType ==
    ASSUME WiringTypeOK, stack # << >>
    PROVE  /\ Top \in Frame /\ Top.bean \in Bean
           /\ HasPoint => /\ Here \in Point
                         /\ \A n \in DOMAIN Here.cands : Here.cands[n] \in Bean
<1>1. Top \in Frame
  BY TopType DEF WiringTypeOK
<1>2. Points(Top.bean, Top.stage) \in Seq(Point)
  BY <1>1, PointsType DEF WiringTypeOK, Frame
<1>3. HasPoint => Here \in Point
  BY <1>2 DEF HasPoint, Here
<1>4. ASSUME HasPoint, NEW n \in DOMAIN Here.cands PROVE Here.cands[n] \in Bean
  <2>1. Here.cands \in Seq(Bean)
    BY <1>3, <1>4 DEF Point
  <2> QED
    BY <1>4, <2>1
<1> QED
  BY <1>1, <1>3, <1>4 DEF Frame

\* What a call of wireBean does to the variables it writes.
LEMMA WireBeanType ==
    ASSUME WiringTypeOK, NEW b \in Bean, NEW rest \in Seq(Frame), WireBean(b, rest)
    PROVE  /\ status' \in [Bean -> Status]
           /\ stack' \in Seq(Frame)
           /\ err' \in BOOLEAN
           /\ deps' \in [Bean -> SUBSET Bean]
           /\ known' \in SUBSET Bean
<1> DEFINE f == [bean |-> b, stage |-> "depends", point |-> 1, cand |-> 1]
<1>1. f \in Frame
  BY DEF Frame
<1>2. << f >> \o rest \in Seq(Frame)
  BY <1>1, PushedType
<1>3. rest # << >> => Head(rest).bean \in Bean
  <2>1. rest # << >> => Head(rest) \in Frame
    OBVIOUS
  <2> QED
    BY <2>1 DEF Frame
<1>4. CASE status[b] = "creating"
  BY <1>4 DEF WireBean, WiringTypeOK, Status
<1>5. CASE status[b] # "creating" /\ OnPath(b)
  BY <1>5 DEF WireBean, WiringTypeOK, Status
<1>6. CASE status[b] # "creating" /\ ~OnPath(b)
  <2>1. /\ deps' = IF rest = << >> THEN deps
                   ELSE [deps EXCEPT ![Head(rest).bean] = @ \cup {b}]
        /\ known' = known \cup {b}
        /\ err' = err
        /\ \/ stack' = rest /\ status' = status
           \/ status' = [status EXCEPT ![b] = "creating"] /\ stack' = << f >> \o rest
    BY <1>6 DEF WireBean
  <2>2. deps' \in [Bean -> SUBSET Bean]
    BY <1>3, <2>1 DEF WiringTypeOK
  <2> QED
    BY <1>2, <2>1, <2>2 DEF WiringTypeOK, Status
<1> QED
  BY <1>4, <1>5, <1>6

\* A frame moves on.
LEMMA MovedFrame ==
    ASSUME NEW f \in Frame
    PROVE  /\ [f EXCEPT !.cand = @ + 1] \in Frame
           /\ [f EXCEPT !.point = @ + 1] \in Frame
           /\ [f EXCEPT !.point = @ + 1, !.cand = 1] \in Frame
           /\ \A stage \in Stage :
                 [f EXCEPT !.stage = stage, !.point = 1, !.cand = 1] \in Frame
<1>1. f.cand + 1 \in Nat \ {0} /\ f.point + 1 \in Nat \ {0} /\ 1 \in Nat \ {0}
  BY DEF Frame
<1>2. ASSUME NEW v \in Nat \ {0} PROVE [f EXCEPT !.cand = v] \in Frame
  BY DEF Frame
<1>3. ASSUME NEW v \in Nat \ {0} PROVE [f EXCEPT !.point = v] \in Frame
  BY DEF Frame
<1>4. ASSUME NEW v \in Nat \ {0}, NEW w \in Nat \ {0}
      PROVE  [f EXCEPT !.point = v, !.cand = w] \in Frame
  BY DEF Frame
<1>5. ASSUME NEW stage \in Stage, NEW v \in Nat \ {0}, NEW w \in Nat \ {0}
      PROVE  [f EXCEPT !.stage = stage, !.point = v, !.cand = w] \in Frame
  BY DEF Frame, Stage
<1> QED
  BY <1>1, <1>2, <1>3, <1>4, <1>5

\* The same, of the innermost frame.
LEMMA MovedType ==
    ASSUME WiringTypeOK, stack # << >>
    PROVE  /\ [Top EXCEPT !.cand = @ + 1] \in Frame
           /\ [Top EXCEPT !.point = @ + 1] \in Frame
           /\ [Top EXCEPT !.point = @ + 1, !.cand = 1] \in Frame
           /\ \A stage \in Stage :
                 [Top EXCEPT !.stage = stage, !.point = 1, !.cand = 1] \in Frame
  BY HereType, MovedFrame

\* Every variable that wiring touches keeps its type.
THEOREM WiringTyping == Spec => []WiringTypeOK
<1>1. Init => WiringTypeOK
  <2> SUFFICES ASSUME Init PROVE WiringTypeOK
    OBVIOUS
  <2>1. program \in ProgramType /\ program.object \in SUBSET Bean
    BY InjectingAssumption DEF Init, ProgramType
  <2> QED
    <3>1. << >> \in Seq(Frame) /\ << >> \in Seq([bean : Bean, point : Point])
      BY SeqEmpty
    <3>2. /\ status \in [Bean -> {"resolved", "creating", "created", "wired"}]
          /\ deps \in [Bean -> SUBSET Bean] /\ finish \in [Bean -> Nat]
      BY DEF Init
    <3>3. stack \in Seq(Frame) /\ lazies \in Seq([bean : Bean, point : Point])
      BY <3>1 DEF Init
    <3>4. holes \in SUBSET [owner : Bean, target : Bean, lazy : BOOLEAN]
      BY DEF Init
    <3>5. /\ phase \in {"wiring", "lazy", "refreshed", "failed", "closed"}
          /\ pos \in Nat \ {0} /\ clock \in Nat \ {0}
      BY DEF Init
    <3>6. built \in SUBSET Bean
      BY <2>1 DEF Init
    <3>7. err \in BOOLEAN /\ known \in SUBSET Bean
      BY DEF Init
    <3> QED
      BY <2>1, <3>2, <3>3, <3>4, <3>5, <3>6, <3>7 DEF WiringTypeOK
<1>2. WiringTypeOK /\ [Next]_vars => WiringTypeOK'
  <2> SUFFICES ASSUME WiringTypeOK, [Next]_vars PROVE WiringTypeOK'
    OBVIOUS
  <2> USE DEF WiringTypeOK
  <2>1. CASE WireRoot
    <3>1. program.roots[pos] \in Bean
      <4>1. program.roots \in Seq(Bean) /\ pos \in DOMAIN program.roots
        BY <2>1 DEF WireRoot, ProgramType
      <4> QED
        BY <4>1
    <3>2. << >> \in Seq(Frame)
      OBVIOUS
    <3> QED
      <4>1. /\ status' \in [Bean -> Status] /\ stack' \in Seq(Frame) /\ err' \in BOOLEAN
            /\ deps' \in [Bean -> SUBSET Bean] /\ known' \in SUBSET Bean
        BY <2>1, <3>1, <3>2, WireBeanType DEF WireRoot
      <4>2. pos' \in Nat \ {0}
        BY <2>1 DEF WireRoot
      <4> QED
        BY <2>1, <4>1, <4>2 DEF WireRoot, Status
  <2>2. CASE DeferField
    <3>1. [bean |-> Top.bean, point |-> Here] \in [bean : Bean, point : Point]
      BY <2>2, HereType DEF DeferField, InFrame
    <3>2. lazies' \in Seq([bean : Bean, point : Point])
      BY <2>2, <3>1 DEF DeferField
    <3>3. stack' \in Seq(Frame)
      BY <2>2, MovedType, ReplacedType DEF DeferField, InFrame, Replaced
    <3> QED
      BY <2>2, <3>2, <3>3 DEF DeferField
  <2>3. CASE RefusePoint
    BY <2>3 DEF RefusePoint
  <2>4. CASE WireCandidate
    <3>1. Here.cands[Top.cand] \in Bean
      BY <2>4, HereType DEF WireCandidate, InFrame
    <3>2. << [Top EXCEPT !.cand = @ + 1] >> \o Tail(stack) \in Seq(Frame)
      BY <2>4, MovedType, ReplacedType DEF WireCandidate, InFrame, Replaced
    <3> QED
      BY <2>4, <3>1, <3>2, WireBeanType DEF WireCandidate, Status
  <2>5. CASE SetPoint
    <3>1. Top.bean \in Bean /\ Here \in Point
      BY <2>5, HereType DEF SetPoint, InFrame
    <3>2. NewHoles(Top.bean, Here) \subseteq [owner : Bean, target : Bean, lazy : BOOLEAN]
      <4>1. Here.cands \in Seq(Bean) /\ Here.lazy \in BOOLEAN
        BY <3>1 DEF Point
      <4>2. ToSet(Here.cands) \subseteq Bean
        BY <4>1 DEF ToSet
      <4> QED
        BY <3>1, <4>1, <4>2 DEF NewHoles
    <3>3. stack' \in Seq(Frame)
      BY <2>5, MovedType, ReplacedType DEF SetPoint, InFrame, Replaced
    <3> QED
      BY <2>5, <3>2, <3>3 DEF SetPoint
  <2>6. ASSUME NEW stage \in Stage, stack # << >>, NextStage(stage)
        PROVE  stack' \in Seq(Frame)
    BY <2>6, MovedType, ReplacedType DEF NextStage, Replaced
  <2>7. CASE DependsDone
    BY <2>6, <2>7 DEF DependsDone, StageDone, InFrame, Stage
  <2>8. CASE Construct
    BY <2>6, <2>8, HereType DEF Construct, StageDone, InFrame, Stage
  <2>9. CASE ConstructFails
    BY <2>9 DEF ConstructFails
  \* A frame goes.
  <2>10. ASSUME stack # << >>, Finish(Top.bean)
         PROVE  /\ Tail(stack) \in Seq(Frame)
                /\ finish' \in [Bean -> Nat] /\ clock' \in Nat \ {0}
    BY <2>10, TopType, HereType DEF Finish
  <2>11. CASE ConstructsNil
    BY <2>10, <2>11 DEF ConstructsNil, StageDone, InFrame
  <2>12. CASE Initialize
    BY <2>10, <2>12, HereType DEF Initialize, StageDone, InFrame
  <2>13. CASE ReturnError
    BY <2>10, <2>13, HereType DEF ReturnError
  <2>14. CASE WiringFails
    BY <2>14 DEF WiringFails
  <2>15. CASE StartLazy
    BY <2>15 DEF StartLazy
  <2>16. CASE SetLazyField
    <3>1. lazies[pos] \in [bean : Bean, point : Point]
      <4>1. pos \in DOMAIN lazies /\ lazies \in Seq([bean : Bean, point : Point])
        BY <2>16 DEF SetLazyField
      <4> QED
        BY <4>1, SeqElement
    <3>2. NewHoles(lazies[pos].bean, lazies[pos].point)
             \subseteq [owner : Bean, target : Bean, lazy : BOOLEAN]
      <4>1. lazies[pos].bean \in Bean /\ lazies[pos].point \in Point
        BY <3>1
      <4>2. lazies[pos].point.cands \in Seq(Bean) /\ lazies[pos].point.lazy \in BOOLEAN
        BY <4>1 DEF Point
      <4>3. ToSet(lazies[pos].point.cands) \subseteq Bean
        BY <4>2 DEF ToSet
      <4> QED
        BY <4>1, <4>2, <4>3 DEF NewHoles
    <3> QED
      BY <2>16, <3>2 DEF SetLazyField
  <2>17. CASE SortDestroyers
    BY <2>17 DEF SortDestroyers
  <2>18. CASE DestroyNext
    BY <2>18 DEF DestroyNext
  <2>19. CASE Closed
    BY <2>19 DEF Closed
  <2>20. CASE UNCHANGED vars
    BY <2>20 DEF vars
  <2> QED
    BY <2>1, <2>2, <2>3, <2>4, <2>5, <2>7, <2>8, <2>9, <2>11, <2>12, <2>13, <2>14,
       <2>15, <2>16, <2>17, <2>18, <2>19, <2>20 DEF Next, Step, Terminated
<1> QED
  BY <1>1, <1>2, PTL DEF Spec

-----------------------------------------------------------------------------
(* The order in which beans are finished. *)

\* A bean is wired by one call of wireBean: it is untouched, on the path, or
\* finished.
OncePerBean ==
    /\ \A b \in Bean : finish[b] < clock
    /\ \A b \in Bean : status[b] = "resolved" <=> finish[b] = 0 /\ ~OnPath(b)
    /\ \A i \in 1..Len(stack) : finish[stack[i].bean] = 0
    /\ \A i, j \in 1..Len(stack) : stack[i].bean = stack[j].bean => i = j

\* A dependency of a bean that is not finished belongs to a bean of the path,
\* and is finished or directly above it.
Above(y, x) ==
    \E i \in 1..Len(stack) :
        /\ stack[i].bean = x
        /\ \/ finish[y] # 0
           \/ i > 1 /\ stack[i - 1].bean = y

DependenciesInv ==
    \A x \in Bean : \A y \in deps[x] :
        IF finish[x] # 0 THEN finish[y] # 0 /\ finish[y] < finish[x]
                         ELSE Above(y, x)

OrderInv == OncePerBean /\ DependenciesInv

\* A step that leaves the beans of the path as they are.
LEMMA SamePath ==
    ASSUME WiringTypeOK, WiringTypeOK', OrderInv,
           Len(stack') = Len(stack),
           \A i \in 1..Len(stack) : stack'[i].bean = stack[i].bean,
           UNCHANGED <<deps, finish, clock>>,
           \A b \in Bean : status'[b] = "resolved" <=> status[b] = "resolved"
    PROVE  OrderInv'
<1>1. DOMAIN stack = 1..Len(stack) /\ DOMAIN stack' = 1..Len(stack)
  BY DEF WiringTypeOK
<1>2. \A b : OnPath(b)' <=> OnPath(b)
  BY <1>1 DEF OnPath
<1>3. OncePerBean'
  BY <1>2 DEF OrderInv, OncePerBean
<1>4. \A x, y : Above(y, x)' <=> Above(y, x)
  BY DEF Above
<1> QED
  BY <1>3, <1>4 DEF OrderInv, DependenciesInv

\* The innermost call of wireBean returns.
LEMMA Popped ==
    ASSUME WiringTypeOK, WiringTypeOK', OrderInv, stack # << >>,
           stack' = Tail(stack), Finish(Top.bean), UNCHANGED deps,
           \A b \in Bean : status'[b] = "resolved" <=> status[b] = "resolved"
    PROVE  OrderInv'
<1>0. PICK t \in Bean : t = Top.bean
  BY HereType
<1>1. /\ Len(stack) \in Nat \ {0} /\ Len(stack') = Len(stack) - 1
      /\ DOMAIN stack = 1..Len(stack) /\ DOMAIN stack' = 1..Len(stack) - 1
      /\ \A i \in 1..Len(stack) - 1 : stack'[i] = stack[i + 1]
      /\ Top = stack[1]
  BY TopType DEF WiringTypeOK
<1>2. t \in Bean /\ t = stack[1].bean
  BY <1>0, <1>1
<1>3. /\ finish \in [Bean -> Nat] /\ clock \in Nat \ {0}
      /\ finish' = [finish EXCEPT ![t] = clock] /\ clock' = clock + 1
  BY <1>0 DEF WiringTypeOK, Finish
<1>4. /\ finish'[t] = clock
      /\ \A b \in Bean : b # t => finish'[b] = finish[b]
  BY <1>2, <1>3
<1>5. \A i \in 1..Len(stack) - 1 : i + 1 \in 1..Len(stack) /\ i + 1 # 1
  BY <1>1
<1>6. \A i \in 1..Len(stack) - 1 : stack'[i].bean # t
  BY <1>1, <1>2, <1>5 DEF OrderInv, OncePerBean
<1>7. \A i \in 1..Len(stack) : stack[i].bean \in Bean
  <2> SUFFICES ASSUME NEW i \in 1..Len(stack) PROVE stack[i].bean \in Bean
    OBVIOUS
  <2>1. stack[i] \in Frame
    BY <1>1, SeqElement DEF WiringTypeOK
  <2> QED
    BY <2>1 DEF Frame
<1>8. ASSUME NEW b \in Bean, b # t PROVE OnPath(b)' <=> OnPath(b)
  <2>1. ASSUME NEW i \in 1..Len(stack), stack[i].bean = b PROVE OnPath(b)'
    <3>1. i - 1 \in 1..Len(stack) - 1 /\ (i - 1) + 1 = i
      BY <1>1, <1>2, <1>8, <2>1
    <3> QED
      BY <1>1, <2>1, <3>1 DEF OnPath
  <2>2. ASSUME NEW i \in 1..Len(stack) - 1, stack'[i].bean = b PROVE OnPath(b)
    BY <1>1, <1>5, <2>2 DEF OnPath
  <2> QED
    BY <1>1, <2>1, <2>2 DEF OnPath
<1>9. OnPath(t) /\ ~OnPath(t)'
  <2>1. 1 \in DOMAIN stack
    BY <1>1
  <2>2. OnPath(t)
    BY <1>2, <2>1 DEF OnPath
  <2>3. ~OnPath(t)'
    BY <1>1, <1>6 DEF OnPath
  <2> QED
    BY <2>2, <2>3
<1>10. OncePerBean'
  <2>1. \A b \in Bean : finish'[b] < clock'
    BY <1>2, <1>3, <1>4 DEF OrderInv, OncePerBean
  <2>2. \A b \in Bean : status'[b] = "resolved" <=> finish'[b] = 0 /\ ~OnPath(b)'
    <3> SUFFICES ASSUME NEW b \in Bean
                 PROVE  status[b] = "resolved" <=> finish'[b] = 0 /\ ~OnPath(b)'
      OBVIOUS
    <3>1. CASE b = t
      BY <1>3, <1>4, <1>9, <3>1 DEF OrderInv, OncePerBean
    <3>2. CASE b # t
      BY <1>4, <1>8, <3>2 DEF OrderInv, OncePerBean
    <3> QED
      BY <3>1, <3>2
  <2>3. \A i \in 1..Len(stack') : finish'[stack'[i].bean] = 0
    BY <1>1, <1>4, <1>5, <1>6, <1>7 DEF OrderInv, OncePerBean
  <2>4. \A i, j \in 1..Len(stack') : stack'[i].bean = stack'[j].bean => i = j
    <3> SUFFICES ASSUME NEW i \in 1..Len(stack) - 1, NEW j \in 1..Len(stack) - 1,
                        stack[i + 1].bean = stack[j + 1].bean
                 PROVE  i = j
      BY <1>1
    <3>1. i + 1 = j + 1
      BY <1>5 DEF OrderInv, OncePerBean
    <3> QED
      BY <1>1, <3>1
  <2> QED
    BY <2>1, <2>2, <2>3, <2>4 DEF OncePerBean
<1>11. ASSUME NEW x \in Bean, NEW y \in deps[x]
       PROVE  IF finish'[x] # 0 THEN finish'[y] # 0 /\ finish'[y] < finish'[x]
                                ELSE Above(y, x)'
  <2>0. y \in Bean
    BY DEF WiringTypeOK
  \* The bean that finishes has nothing above it.
  <2>1. CASE x = t
    <3>1. finish[t] = 0
      BY <1>1, <1>2 DEF OrderInv, OncePerBean
    <3>2. PICK i \in 1..Len(stack) :
             stack[i].bean = t /\ (finish[y] # 0 \/ (i > 1 /\ stack[i - 1].bean = y))
      <4>1. Above(y, t)
        BY <2>1, <3>1 DEF OrderInv, DependenciesInv
      <4> QED
        BY <4>1 DEF Above
    <3>3. i = 1
      BY <1>1, <1>2, <3>2 DEF OrderInv, OncePerBean
    <3>4. finish[y] # 0 /\ y # t
      BY <3>1, <3>2, <3>3
    <3> QED
      BY <1>3, <1>4, <2>0, <2>1, <3>4 DEF OrderInv, OncePerBean
  <2>2. CASE x # t /\ finish[x] # 0
    <3>1. finish[y] # 0 /\ finish[y] < finish[x]
      BY <2>2 DEF OrderInv, DependenciesInv
    <3>2. y # t
      BY <1>1, <1>2, <3>1 DEF OrderInv, OncePerBean
    <3> QED
      BY <1>4, <2>0, <2>2, <3>1, <3>2
  <2>3. CASE x # t /\ finish[x] = 0
    <3>1. PICK i \in 1..Len(stack) :
             stack[i].bean = x /\ (finish[y] # 0 \/ (i > 1 /\ stack[i - 1].bean = y))
      <4>1. Above(y, x)
        BY <2>3 DEF OrderInv, DependenciesInv
      <4> QED
        BY <4>1 DEF Above
    <3>2. i - 1 \in 1..Len(stack) - 1 /\ (i - 1) + 1 = i
      BY <1>1, <1>2, <2>3, <3>1
    <3>3. stack'[i - 1].bean = x
      BY <1>1, <3>1, <3>2
    <3>4. finish'[y] # 0 \/ (i - 1 > 1 /\ stack'[(i - 1) - 1].bean = y)
      <4>1. CASE finish[y] # 0
        BY <1>3, <1>4, <2>0, <4>1
      <4>2. CASE i > 1 /\ stack[i - 1].bean = y
        <5>1. CASE i = 2
          BY <1>2, <1>3, <1>4, <4>2, <5>1
        <5>2. CASE i > 2
          <6>1. (i - 1) - 1 \in 1..Len(stack) - 1 /\ ((i - 1) - 1) + 1 = i - 1
            BY <1>1, <5>2
          <6> QED
            BY <1>1, <4>2, <5>2, <6>1
        <5> QED
          BY <4>2, <5>1, <5>2
      <4> QED
        BY <3>1, <4>1, <4>2
    <3>5. Above(y, x)'
      BY <1>1, <3>2, <3>3, <3>4 DEF Above
    <3> QED
      BY <1>4, <2>3, <3>5
  <2> QED
    BY <2>1, <2>2, <2>3
<1> QED
  BY <1>10, <1>11 DEF OrderInv, DependenciesInv

\* A call of wireBean by the function whose frames are rest: they are on the
\* same beans as the stack's.
LEMMA Called ==
    ASSUME WiringTypeOK, WiringTypeOK', OrderInv,
           NEW b \in Bean, NEW rest \in Seq(Frame),
           Len(rest) = Len(stack),
           \A i \in 1..Len(stack) : rest[i].bean = stack[i].bean,
           WireBean(b, rest), UNCHANGED <<finish, clock>>
    PROVE  OrderInv'
<1>a. PICK n \in Nat : n = Len(stack)
  BY DEF WiringTypeOK
<1>b. PICK f \in Frame :
         f = [bean |-> b, stage |-> "depends", point |-> 1, cand |-> 1]
  <2>1. [bean |-> b, stage |-> "depends", point |-> 1, cand |-> 1] \in Frame
    BY DEF Frame
  <2> QED
    BY <2>1
<1>c. f.bean = b
  BY <1>b
<1>1. /\ n \in Nat /\ n = Len(stack) /\ DOMAIN stack = 1..n /\ DOMAIN rest = 1..n
      /\ DOMAIN stack' = 1..Len(stack')
  BY <1>a DEF WiringTypeOK
<1>2. CASE stack' = rest /\ UNCHANGED <<status, deps>>
  BY <1>2, SamePath
<1>3. CASE status[b] # "creating" /\ ~OnPath(b)
  <2>1. /\ deps' = IF rest = << >> THEN deps
                   ELSE [deps EXCEPT ![Head(rest).bean] = @ \cup {b}]
        /\ \/ status[b] \in {"created", "wired"} /\ stack' = rest /\ status' = status
           \/ /\ status[b] \notin {"created", "wired"}
              /\ status' = [status EXCEPT ![b] = "creating"]
              /\ stack' = << f >> \o rest
    BY <1>3, <1>b DEF WireBean
  \* What is new in deps.
  <2>2. ASSUME NEW x \in Bean, NEW y \in deps'[x], y \notin deps[x]
        PROVE  n # 0 /\ x = stack[1].bean /\ y = b
    <3>1. rest # << >> /\ n # 0
      <4>1. rest # << >>
        BY <2>1, <2>2
      <4>2. Len(rest) # 0
        BY <4>1
      <4> QED
        BY <1>1, <4>1, <4>2
    <3>2. Head(rest) = rest[1] /\ 1 \in 1..n
      BY <1>1, <3>1
    <3>3. deps' = [deps EXCEPT ![stack[1].bean] = @ \cup {b}]
      BY <1>1, <2>1, <3>1, <3>2
    <3> QED
      BY <2>2, <3>1, <3>3 DEF WiringTypeOK
  <2>3. CASE status[b] \in {"created", "wired"}
    <3>1. stack' = rest /\ status' = status
      BY <2>1, <2>3
    <3>2. finish[b] # 0
      BY <1>3, <2>3 DEF OrderInv, OncePerBean
    <3>3. \A c : OnPath(c)' <=> OnPath(c)
      BY <1>1, <3>1 DEF OnPath
    <3>4. OncePerBean'
      BY <1>1, <3>1, <3>3 DEF OrderInv, OncePerBean
    <3>5. \A x, y : Above(y, x)' <=> Above(y, x)
      <4>1. /\ Len(stack') = n /\ finish' = finish
            /\ \A i \in 1..n : stack'[i].bean = stack[i].bean
        BY <1>1, <3>1
      <4>2. \A i \in 1..n : i > 1 => i - 1 \in 1..n
        BY <1>1
      <4> QED
        BY <1>1, <4>1, <4>2 DEF Above
    <3>6. ASSUME NEW x \in Bean, NEW y \in deps'[x], y \notin deps[x]
          PROVE  finish[x] = 0 /\ Above(y, x)
      <4>1. n # 0 /\ x = stack[1].bean /\ y = b
        BY <2>2, <3>6
      <4>2. 1 \in 1..n
        BY <1>1, <4>1
      <4> QED
        BY <1>1, <3>2, <4>1, <4>2 DEF OrderInv, OncePerBean, Above
    <3> QED
      BY <3>4, <3>5, <3>6 DEF OrderInv, DependenciesInv
  <2>4. CASE status[b] \notin {"created", "wired"}
    <3>1. status[b] = "resolved" /\ finish[b] = 0
      BY <1>3, <2>4 DEF OrderInv, OncePerBean, WiringTypeOK
    <3>2. stack' = << f >> \o rest /\ status' = [status EXCEPT ![b] = "creating"]
      BY <2>1, <2>4
    <3>3. /\ Len(stack') = n + 1 /\ stack'[1].bean = b
          /\ \A i \in 1..n : stack'[i + 1].bean = stack[i].bean
      <4>1. /\ Len(stack') = Len(rest) + 1 /\ stack'[1] = f
            /\ \A i \in 1..Len(rest) : stack'[i + 1] = rest[i]
        BY <1>b, <3>2, PushedType
      <4>2. Len(rest) = n /\ (\A i \in 1..n : rest[i].bean = stack[i].bean)
        BY <1>1
      <4> QED
        BY <1>c, <4>1, <4>2
    <3>4. \A i \in 2..n + 1 : /\ i - 1 \in 1..n /\ (i - 1) + 1 = i
                             /\ stack'[i].bean = stack[i - 1].bean
      <4> SUFFICES ASSUME NEW i \in 2..n + 1
                   PROVE  /\ i - 1 \in 1..n /\ (i - 1) + 1 = i
                          /\ stack'[i].bean = stack[i - 1].bean
        OBVIOUS
      <4>1. i - 1 \in 1..n /\ (i - 1) + 1 = i
        BY <1>1
      <4> QED
        BY <3>3, <4>1
    <3>5. \A i \in 1..n + 1 : i = 1 \/ i \in 2..n + 1
      BY <1>1
    <3>6. \A c : OnPath(c)' <=> OnPath(c) \/ c = b
      <4>1. ASSUME NEW c, OnPath(c) PROVE OnPath(c)'
        <5>1. PICK i \in 1..n : stack[i].bean = c
          BY <1>1, <4>1 DEF OnPath
        <5>2. i + 1 \in 1..n + 1
          BY <1>1
        <5> QED
          BY <1>1, <3>3, <5>1, <5>2 DEF OnPath
      <4>2. OnPath(b)'
        <5>1. 1 \in 1..n + 1
          BY <1>1
        <5> QED
          BY <1>1, <3>3, <5>1 DEF OnPath
      <4>3. ASSUME NEW c, OnPath(c)' PROVE OnPath(c) \/ c = b
        <5>1. PICK i \in 1..n + 1 : stack'[i].bean = c
          BY <1>1, <3>3, <4>3 DEF OnPath
        <5>2. CASE i = 1
          BY <3>3, <5>1, <5>2
        <5>3. CASE i \in 2..n + 1
          BY <1>1, <3>4, <5>1, <5>3 DEF OnPath
        <5> QED
          BY <3>5, <5>2, <5>3
      <4> QED
        BY <4>1, <4>2, <4>3
    <3>7. OncePerBean'
      <4>1. \A c \in Bean : finish'[c] < clock'
        BY DEF OrderInv, OncePerBean
      <4>2. \A c \in Bean : status'[c] = "resolved" <=> finish'[c] = 0 /\ ~OnPath(c)'
        BY <3>2, <3>6 DEF OrderInv, OncePerBean, WiringTypeOK
      <4>3. \A i \in 1..Len(stack') : finish'[stack'[i].bean] = 0
        <5> SUFFICES ASSUME NEW i \in 1..n + 1 PROVE finish'[stack'[i].bean] = 0
          BY <3>3
        <5>1. CASE i = 1
          BY <3>1, <3>3, <5>1
        <5>2. CASE i \in 2..n + 1
          BY <1>1, <3>4, <5>2 DEF OrderInv, OncePerBean
        <5> QED
          BY <3>5, <5>1, <5>2
      <4>4. \A i \in 1..n : stack[i].bean # b
        BY <1>1, <1>3 DEF OnPath
      <4>5. ASSUME NEW i \in 1..n + 1, NEW j \in 1..n + 1,
                   stack'[i].bean = stack'[j].bean
            PROVE  i = j
        <5>0. \A k \in 1..n + 1 : k # 1 => stack'[k].bean # b
          BY <3>4, <3>5, <4>4
        <5>1. CASE i = 1 \/ j = 1
          BY <3>3, <4>5, <5>0, <5>1
        <5>2. CASE i # 1 /\ j # 1
          <6>1. i - 1 = j - 1
            <7>1. /\ i - 1 \in 1..n /\ j - 1 \in 1..n
                  /\ stack[i - 1].bean = stack[j - 1].bean
              BY <3>4, <3>5, <4>5, <5>2
            <7> QED
              BY <1>1, <7>1 DEF OrderInv, OncePerBean
          <6> QED
            BY <3>4, <3>5, <5>2, <6>1
        <5> QED
          BY <5>1, <5>2
      <4> QED
        BY <3>3, <4>1, <4>2, <4>3, <4>5 DEF OncePerBean
    <3>8. ASSUME NEW x, NEW y, Above(y, x) PROVE Above(y, x)'
      <4>1. PICK i \in 1..n : /\ stack[i].bean = x
                              /\ finish[y] # 0 \/ (i > 1 /\ stack[i - 1].bean = y)
        BY <1>1, <3>8 DEF Above
      <4>2. i + 1 \in 1..n + 1 /\ i + 1 > 1 /\ (i + 1) - 1 = i
        BY <1>1
      <4>3. i > 1 => i - 1 \in 1..n /\ (i - 1) + 1 = i
        BY <1>1
      <4>4. /\ stack'[i + 1].bean = x
            /\ finish'[y] # 0 \/ (i + 1 > 1 /\ stack'[(i + 1) - 1].bean = y)
        BY <3>3, <4>1, <4>2, <4>3
      <4> QED
        BY <3>3, <4>2, <4>4 DEF Above
    <3>9. ASSUME NEW x \in Bean, NEW y \in deps'[x], y \notin deps[x]
          PROVE  finish[x] = 0 /\ Above(y, x)'
      <4>1. n # 0 /\ x = stack[1].bean /\ y = b
        BY <2>2, <3>9
      <4>2. 1 \in 1..n /\ 2 \in 1..n + 1
        BY <1>1, <4>1
      <4>3. stack'[1 + 1].bean = x /\ stack'[1].bean = y
        BY <3>3, <4>1, <4>2
      <4>4. finish[x] = 0
        BY <1>1, <4>1, <4>2 DEF OrderInv, OncePerBean
      <4>5. /\ 2 \in 1..Len(stack') /\ stack'[2].bean = x
            /\ 2 > 1 /\ stack'[2 - 1].bean = y
        BY <3>3, <4>2, <4>3
      <4>6. Above(y, x)'
        BY <4>5 DEF Above
      <4> QED
        BY <4>4, <4>6
    <3> QED
      BY <3>7, <3>8, <3>9 DEF OrderInv, DependenciesInv
  <2> QED
    BY <2>3, <2>4
<1> QED
  BY <1>2, <1>3 DEF WireBean

\* The frames on the path stay on the same beans when the innermost moves on.
LEMMA ReplacedBeans ==
    ASSUME WiringTypeOK, stack # << >>, NEW f \in Frame, f.bean = Top.bean
    PROVE  /\ Replaced(f) \in Seq(Frame)
           /\ Len(Replaced(f)) = Len(stack)
           /\ \A i \in 1..Len(stack) : Replaced(f)[i].bean = stack[i].bean
<1>0. stack \in Seq(Frame)
  BY DEF WiringTypeOK
<1>1. /\ Replaced(f) \in Seq(Frame) /\ Len(Replaced(f)) = Len(stack)
      /\ Replaced(f)[1] = f /\ Top = stack[1]
      /\ \A i \in 2..Len(stack) : Replaced(f)[i] = stack[i]
  BY <1>0, ReplacedType, TopType
<1>2. \A i \in 1..Len(stack) : i = 1 \/ i \in 2..Len(stack)
  BY <1>0
<1> QED
  BY <1>1, <1>2

\* The frames that the actions put in the place of the innermost one are on
\* the same bean.
LEMMA MovedBean ==
    ASSUME WiringTypeOK, stack # << >>
    PROVE  /\ [Top EXCEPT !.cand = @ + 1].bean = Top.bean
           /\ [Top EXCEPT !.point = @ + 1].bean = Top.bean
           /\ [Top EXCEPT !.point = @ + 1, !.cand = 1].bean = Top.bean
           /\ \A stage \in Stage :
                 [Top EXCEPT !.stage = stage, !.point = 1, !.cand = 1].bean = Top.bean
  BY HereType DEF Frame

\* OrderInv is inductive.
LEMMA OrderStep ==
    ASSUME WiringTypeOK, WiringTypeOK', OrderInv, [Next]_vars
    PROVE  OrderInv'
<1>a. stack \in Seq(Frame) /\ Len(stack) \in Nat
  BY DEF WiringTypeOK
<1>b. ASSUME stack # << >> PROVE Top.bean \in Bean /\ finish[Top.bean] = 0
             /\ OnPath(Top.bean)
  <2>1. Top = stack[1] /\ 1 \in 1..Len(stack) /\ DOMAIN stack = 1..Len(stack)
    BY <1>a, <1>b, TopType
  <2> QED
    BY <1>b, <2>1, HereType DEF OrderInv, OncePerBean, OnPath
<1>c. ASSUME stack # << >> PROVE status[Top.bean] # "resolved"
  BY <1>b, <1>c DEF OrderInv, OncePerBean
\* A step that leaves the path alone.
<1>d. ASSUME UNCHANGED <<stack, status, deps, finish, clock>> PROVE OrderInv'
  BY <1>a, <1>d, SamePath
\* A step that moves the innermost frame on.
<1>e. ASSUME stack # << >>, NEW f \in Frame, f.bean = Top.bean, stack' = Replaced(f),
             UNCHANGED <<deps, finish, clock>>,
             \A b \in Bean : status'[b] = "resolved" <=> status[b] = "resolved"
      PROVE  OrderInv'
  BY <1>e, ReplacedBeans, SamePath
<1>1. CASE WireRoot
  <2>1. program.roots[pos] \in Bean
    <3>1. program.roots \in Seq(Bean) /\ pos \in DOMAIN program.roots
      BY <1>1 DEF WireRoot, WiringTypeOK, ProgramType
    <3> QED
      BY <3>1
  <2>2. << >> \in Seq(Frame) /\ stack = << >>
    BY <1>1 DEF WireRoot
  <2>3. WireBean(program.roots[pos], << >>) /\ UNCHANGED <<finish, clock>>
    BY <1>1 DEF WireRoot
  <2> QED
    BY <2>1, <2>2, <2>3, Called
<1>2. CASE DeferField
  BY <1>2, <1>e, MovedType, MovedBean DEF DeferField, InFrame, Replaced
<1>3. CASE RefusePoint
  BY <1>3, <1>d DEF RefusePoint
<1>4. CASE WireCandidate
  <2>1. stack # << >> /\ Here.cands[Top.cand] \in Bean
    BY <1>4, HereType DEF WireCandidate, InFrame
  <2>2. /\ WireBean(Here.cands[Top.cand], Replaced([Top EXCEPT !.cand = @ + 1]))
        /\ UNCHANGED <<finish, clock>>
    BY <1>4 DEF WireCandidate, Replaced
  <2>3. PICK f \in Frame : f = [Top EXCEPT !.cand = @ + 1] /\ f.bean = Top.bean
    BY <2>1, MovedType, MovedBean
  <2>4. /\ Replaced(f) \in Seq(Frame) /\ Len(Replaced(f)) = Len(stack)
        /\ \A i \in 1..Len(stack) : Replaced(f)[i].bean = stack[i].bean
    BY <2>1, <2>3, ReplacedBeans
  <2>5. PICK rest \in Seq(Frame) : rest = Replaced(f)
    BY <2>4
  <2>6. PICK b \in Bean : b = Here.cands[Top.cand]
    BY <2>1
  <2>7. WireBean(b, rest)
    BY <2>2, <2>3, <2>5, <2>6
  <2> QED
    BY <2>2, <2>4, <2>5, <2>7, Called
<1>5. CASE SetPoint
  BY <1>5, <1>e, MovedType, MovedBean DEF SetPoint, InFrame, Replaced
<1>6. ASSUME NEW stage \in Stage, stack # << >>, NextStage(stage),
             UNCHANGED <<deps, finish, clock>>,
             \A b \in Bean : status'[b] = "resolved" <=> status[b] = "resolved"
      PROVE  OrderInv'
  BY <1>6, <1>e, MovedType, MovedBean DEF NextStage, Replaced
<1>7. CASE DependsDone
  BY <1>6, <1>7 DEF DependsDone, StageDone, InFrame, Stage
<1>8. CASE Construct
  <2>1. \A b \in Bean : status'[b] = "resolved" <=> status[b] = "resolved"
    BY <1>8, <1>b, <1>c DEF Construct, StageDone, InFrame, WiringTypeOK
  <2> QED
    BY <1>6, <1>8, <2>1 DEF Construct, StageDone, InFrame, Stage
<1>9. CASE ConstructFails
  BY <1>9, <1>d DEF ConstructFails
<1>10. CASE ConstructsNil
  BY <1>10, Popped DEF ConstructsNil, StageDone, InFrame
<1>11. CASE Initialize
  <2>1. \A b \in Bean : status'[b] = "resolved" <=> status[b] = "resolved"
    BY <1>11, <1>b, <1>c DEF Initialize, StageDone, InFrame, WiringTypeOK
  <2> QED
    BY <1>11, <2>1, Popped DEF Initialize, StageDone, InFrame
<1>12. CASE ReturnError
  <2>1. \A b \in Bean : status'[b] = "resolved" <=> status[b] = "resolved"
    BY <1>12, <1>b, <1>c DEF ReturnError, WiringTypeOK
  <2> QED
    BY <1>12, <2>1, Popped DEF ReturnError
<1>13. CASE WiringFails
  BY <1>13, <1>d DEF WiringFails
<1>14. CASE StartLazy
  BY <1>14, <1>d DEF StartLazy
<1>15. CASE SetLazyField
  BY <1>15, <1>d DEF SetLazyField
<1>16. CASE SortDestroyers
  BY <1>16, <1>d DEF SortDestroyers
<1>17. CASE DestroyNext
  BY <1>17, <1>d DEF DestroyNext
<1>18. CASE Closed
  BY <1>18, <1>d DEF Closed
<1>19. CASE UNCHANGED vars
  BY <1>19, <1>d DEF vars
<1> QED
  BY <1>1, <1>2, <1>3, <1>4, <1>5, <1>7, <1>8, <1>9, <1>10, <1>11, <1>12, <1>13,
     <1>14, <1>15, <1>16, <1>17, <1>18, <1>19 DEF Next, Step, Terminated

\* OrderInv holds from the start.
LEMMA OrderStart == Init => OrderInv
<1> SUFFICES ASSUME Init PROVE OrderInv
  OBVIOUS
<1>1. stack = << >> /\ Len(stack) = 0 /\ DOMAIN stack = {}
  BY DEF Init
<1>2. \A b \in Bean : status[b] = "resolved" /\ finish[b] = 0 /\ deps[b] = {}
  BY DEF Init
<1>3. clock = 1 /\ 1..0 = {}
  BY DEF Init
<1> QED
  BY <1>1, <1>2, <1>3 DEF OrderInv, OncePerBean, DependenciesInv, OnPath

\* Whatever the beans need from each other, a recorded dependency finishes
\* before the bean that depends on it (injecting.go:577-658).
THEOREM DependenciesFinish == Spec => []DependenciesFinishFirst
<1>1. WiringTypeOK /\ WiringTypeOK' /\ OrderInv /\ [Next]_vars => OrderInv'
  BY OrderStep
<1>2. OrderInv => DependenciesFinishFirst
  BY DEF OrderInv, DependenciesInv, DependenciesFinishFirst
<1> QED
  BY <1>1, <1>2, OrderStart, WiringTyping, PTL DEF Spec

\* When no call of wireBean is left, finish ranks every recorded dependency:
\* beanDepMap holds no cycle, so the topological sort of getSortedDestroyers
\* has a result (injecting.go:936-939) although field cycles are wired.
DependenciesRanked ==
    stack = << >> => \A x \in Bean : \A y \in deps[x] : finish[y] < finish[x]

\* getSortedDestroyers never meets a cycle in the recorded dependencies.
THEOREM DependenciesRank == Spec => []DependenciesRanked
<1>1. WiringTypeOK /\ WiringTypeOK' /\ OrderInv /\ [Next]_vars => OrderInv'
  BY OrderStep
<1>2. OrderInv => DependenciesRanked
  <2> SUFFICES ASSUME OrderInv, stack = << >>, NEW x \in Bean, NEW y \in deps[x]
               PROVE  finish[y] < finish[x]
    BY DEF DependenciesRanked
  <2>1. Len(stack) = 0 /\ 1..0 = {}
    OBVIOUS
  <2>2. ~Above(y, x)
    BY <2>1 DEF Above
  <2> QED
    BY <2>2 DEF OrderInv, DependenciesInv
<1> QED
  BY <1>1, <1>2, OrderStart, WiringTyping, PTL DEF Spec

-----------------------------------------------------------------------------
(* What is injected is there. *)

\* A frame f that works on the points ps has wired the candidates before the
\* one it wires next, so far as they are in S; it wires none of a lazy field.
Wires(ps, f, S) ==
    f.point \in DOMAIN ps =>
        /\ ps[f.point].lazy => f.cand = 1
        /\ \A k \in DOMAIN ps[f.point].cands : k < f.cand => ps[f.point].cands[k] \in S

\* What the i-th frame has: values that exist, and the bean of the frame above,
\* which will have one when that frame returns without an error.
Given(i) == built \cup (IF i = 1 THEN {} ELSE {stack[i - 1].bean})

Progress ==
    ~err => \A i \in 1..Len(stack) :
               Wires(Points(stack[i].bean, stack[i].stage), stack[i], Given(i))

LaziesAreLazy == \A n \in DOMAIN lazies : lazies[n].point.lazy
CreatedIsBuilt == \A b \in Bean : status[b] \in {"created", "wired"} => b \in built
FieldsOfBuilt  ==
    \A i \in 1..Len(stack) : stack[i].stage = "fields" => stack[i].bean \in built

\* EagerInjectionsAreBuilt, and why: when errors are not swallowed, a bean that
\* counts as created has a value, and so have the candidates behind a frame.
BuiltInv ==
    ~program.force =>
        /\ \A h \in holes : h.lazy
        /\ LaziesAreLazy /\ CreatedIsBuilt /\ FieldsOfBuilt /\ Progress

\* What a frame has wired it has for good.
LEMMA WiresMore ==
    ASSUME NEW ps, NEW f, NEW S, NEW T, S \subseteq T, Wires(ps, f, S)
    PROVE  Wires(ps, f, T)
  BY DEF Wires

\* The points of a program that stays.
LEMMA PointsKept ==
    ASSUME UNCHANGED program
    PROVE  \A b, stage : Points(b, stage)' = Points(b, stage)
  BY DEF Points

\* The frames of the functions that wait for wireBean(b), innermost first.
Waiting(rest, b) ==
    \A j \in 1..Len(rest) :
        Wires(Points(rest[j].bean, rest[j].stage), rest[j],
              built \cup (IF j = 1 THEN {b} ELSE {rest[j - 1].bean}))

\* wireBean(b) returns, and b has a value.
LEMMA Returns ==
    ASSUME NEW rest \in Seq(Frame), NEW b, b \in built, Waiting(rest, b),
           stack' = rest, UNCHANGED <<program, built>>
    PROVE  Progress'
<1>1. \A c, stage : Points(c, stage)' = Points(c, stage)
  BY PointsKept
<1>2. ASSUME NEW j \in 1..Len(rest)
      PROVE  Wires(Points(rest[j].bean, rest[j].stage), rest[j], Given(j)')
  <2>1. built \cup (IF j = 1 THEN {b} ELSE {rest[j - 1].bean}) \subseteq Given(j)'
    BY DEF Given
  <2> QED
    BY <2>1, WiresMore DEF Waiting
<1> QED
  BY <1>1, <1>2 DEF Progress

\* A frame at the first candidate of a point has nothing to have wired.
LEMMA FirstCandidate ==
    ASSUME program \in ProgramType, NEW f \in Frame, f.cand = 1, NEW S
    PROVE  Wires(Points(f.bean, f.stage), f, S)
<1>1. Points(f.bean, f.stage) \in Seq(Point)
  BY PointsType DEF Frame
<1>2. ASSUME f.point \in DOMAIN Points(f.bean, f.stage),
             NEW k \in DOMAIN Points(f.bean, f.stage)[f.point].cands
      PROVE  ~(k < f.cand)
  <2>1. Points(f.bean, f.stage)[f.point] \in Point
    BY <1>1, <1>2, SeqElement
  <2>2. Points(f.bean, f.stage)[f.point].cands \in Seq(Bean)
    BY <2>1 DEF Point
  <2>3. k \in 1..Len(Points(f.bean, f.stage)[f.point].cands)
    BY <1>2, <2>2
  <2> QED
    BY <2>3
<1> QED
  BY <1>2 DEF Wires

\* wireBean(b) begins, in a frame of its own.
LEMMA Begins ==
    ASSUME NEW rest \in Seq(Frame), NEW b \in Bean, Waiting(rest, b),
           stack' = << [bean |-> b, stage |-> "depends", point |-> 1, cand |-> 1] >> \o rest,
           UNCHANGED <<program, built>>, program \in ProgramType
    PROVE  Progress'
<1>0. PICK f \in Frame : f = [bean |-> b, stage |-> "depends", point |-> 1, cand |-> 1]
  <2>1. [bean |-> b, stage |-> "depends", point |-> 1, cand |-> 1] \in Frame
    BY DEF Frame
  <2> QED
    BY <2>1
<1>1. \A c, stage : Points(c, stage)' = Points(c, stage)
  BY PointsKept
<1>2. /\ Len(rest) \in Nat /\ Len(stack') = Len(rest) + 1
      /\ stack'[1] = f /\ f.bean = b /\ f.cand = 1
      /\ \A i \in 1..Len(rest) : stack'[i + 1] = rest[i]
  BY <1>0, PushedType
<1>3. Wires(Points(f.bean, f.stage), f, Given(1)')
  BY <1>2, FirstCandidate
<1>4. ASSUME NEW j \in 1..Len(rest)
      PROVE  Wires(Points(rest[j].bean, rest[j].stage), rest[j], Given(j + 1)')
  <2>1. built \cup (IF j = 1 THEN {b} ELSE {rest[j - 1].bean}) \subseteq Given(j + 1)'
    <3>1. stack'[j].bean = IF j = 1 THEN b ELSE rest[j - 1].bean
      <4>1. CASE j = 1
        BY <1>2, <4>1
      <4>2. CASE j # 1
        <5>1. j - 1 \in 1..Len(rest) /\ (j - 1) + 1 = j
          BY <1>2, <4>2
        <5> QED
          BY <1>2, <4>2, <5>1
      <4> QED
        BY <4>1, <4>2
    <3>2. j + 1 # 1 /\ (j + 1) - 1 = j
      BY <1>2
    <3> QED
      BY <3>1, <3>2 DEF Given
  <2> QED
    BY <2>1, WiresMore DEF Waiting
<1>5. ASSUME NEW i \in 1..Len(rest) + 1
      PROVE  Wires(Points(stack'[i].bean, stack'[i].stage), stack'[i], Given(i)')
  <2>1. CASE i = 1
    BY <1>2, <1>3, <2>1
  <2>2. CASE i # 1
    <3>1. i - 1 \in 1..Len(rest) /\ (i - 1) + 1 = i
      BY <1>2, <2>2
    <3>2. stack'[i] = rest[i - 1]
      BY <1>2, <3>1
    <3> QED
      BY <1>4, <3>1, <3>2
  <2> QED
    BY <2>1, <2>2
<1> QED
  BY <1>1, <1>2, <1>5 DEF Progress

\* The innermost frame moves on, when it has wired the candidates before its
\* next one.
LEMMA MovesOn ==
    ASSUME WiringTypeOK, stack # << >>, Progress, ~err,
           NEW f \in Frame, f.bean = Top.bean, stack' = Replaced(f),
           UNCHANGED program, built \subseteq built',
           Wires(Points(f.bean, f.stage), f, built')
    PROVE  Progress'
<1>1. \A c, stage : Points(c, stage)' = Points(c, stage)
  BY PointsKept
<1>2. /\ Len(stack) \in Nat /\ Len(stack') = Len(stack) /\ stack'[1] = f
      /\ \A i \in 2..Len(stack) : stack'[i] = stack[i]
  BY ReplacedType DEF WiringTypeOK
<1>3. \A i \in 1..Len(stack) : stack'[i].bean = stack[i].bean
  BY ReplacedBeans
<1>4. ASSUME NEW i \in 1..Len(stack)
      PROVE  Wires(Points(stack'[i].bean, stack'[i].stage), stack'[i], Given(i)')
  <2>1. CASE i = 1
    <3>1. built' \subseteq Given(i)'
      BY DEF Given
    <3> QED
      BY <1>2, <2>1, <3>1, WiresMore
  <2>2. CASE i # 1
    <3>1. i \in 2..Len(stack) /\ i - 1 \in 1..Len(stack)
      BY <1>2, <2>2
    <3>2. Given(i) \subseteq Given(i)'
      BY <1>3, <2>2, <3>1 DEF Given
    <3>3. stack'[i] = stack[i]
      BY <1>2, <3>1
    <3> QED
      BY <3>2, <3>3, WiresMore DEF Progress
  <2> QED
    BY <2>1, <2>2
<1> QED
  BY <1>1, <1>2, <1>4 DEF Progress

\* What is left when the innermost frame goes waits for its bean.
LEMMA TailWaits ==
    ASSUME WiringTypeOK, stack # << >>, FieldsOfBuilt
    PROVE  /\ ~err /\ Progress => Waiting(Tail(stack), Top.bean)
           /\ \A j \in 1..Len(Tail(stack)) :
                 Tail(stack)[j].stage = "fields" => Tail(stack)[j].bean \in built
<1>1. /\ Len(stack) \in Nat \ {0} /\ Len(Tail(stack)) = Len(stack) - 1
      /\ \A i \in 1..Len(stack) - 1 : Tail(stack)[i] = stack[i + 1]
      /\ Top = stack[1]
  BY TopType DEF WiringTypeOK
<1>2. ASSUME NEW j \in 1..Len(stack) - 1
      PROVE  /\ j + 1 \in 1..Len(stack) /\ j + 1 # 1 /\ (j + 1) - 1 = j
             /\ Tail(stack)[j] = stack[j + 1]
             /\ j # 1 => j - 1 \in 1..Len(stack) - 1 /\ Tail(stack)[j - 1] = stack[j]
  <2>1. j # 1 => j - 1 \in 1..Len(stack) - 1 /\ (j - 1) + 1 = j
    BY <1>1
  <2> QED
    BY <1>1, <2>1
<1>3. ASSUME ~err, Progress, NEW j \in 1..Len(stack) - 1
      PROVE  Wires(Points(Tail(stack)[j].bean, Tail(stack)[j].stage), Tail(stack)[j],
                   built \cup (IF j = 1 THEN {Top.bean} ELSE {Tail(stack)[j - 1].bean}))
  <2>1. Given(j + 1) = built \cup (IF j = 1 THEN {Top.bean} ELSE {Tail(stack)[j - 1].bean})
    BY <1>1, <1>2 DEF Given
  <2> QED
    BY <1>2, <1>3, <2>1 DEF Progress
<1>4. 1..Len(Tail(stack)) = 1..Len(stack) - 1
  BY <1>1
<1>5. ~err /\ Progress => Waiting(Tail(stack), Top.bean)
  BY <1>3, <1>4 DEF Waiting
<1>6. ASSUME NEW j \in 1..Len(Tail(stack)), Tail(stack)[j].stage = "fields"
      PROVE  Tail(stack)[j].bean \in built
  BY <1>2, <1>4, <1>6 DEF FieldsOfBuilt
<1> QED
  BY <1>5, <1>6

\* A call of wireBean by the function whose frames are rest.
LEMMA BuiltCalled ==
    ASSUME WiringTypeOK, OrderInv, CreatedIsBuilt, NEW b \in Bean, NEW rest \in Seq(Frame),
           Waiting(rest, b), WireBean(b, rest), UNCHANGED <<program, built>>,
           \A j \in 1..Len(rest) : rest[j].stage = "fields" => rest[j].bean \in built
    PROVE  CreatedIsBuilt' /\ FieldsOfBuilt' /\ Progress'
<1>1. CASE status[b] = "creating"
  BY <1>1 DEF WireBean, CreatedIsBuilt, FieldsOfBuilt, Progress
<1>2. CASE status[b] # "creating" /\ (OnPath(b) \/ status[b] \in {"created", "wired"})
  <2>1. status[b] \in {"created", "wired"}
    BY <1>2 DEF OrderInv, OncePerBean, WiringTypeOK
  <2>2. stack' = rest /\ UNCHANGED status
    BY <1>2, <2>1 DEF WireBean
  <2>3. b \in built
    BY <2>1 DEF CreatedIsBuilt
  <2>4. Progress'
    BY <2>2, <2>3, Returns
  <2> QED
    BY <2>2, <2>4 DEF CreatedIsBuilt, FieldsOfBuilt
<1>3. CASE status[b] \notin {"creating", "created", "wired"} /\ ~OnPath(b)
  <2>0. PICK f \in Frame : f = [bean |-> b, stage |-> "depends", point |-> 1, cand |-> 1]
    <3>1. [bean |-> b, stage |-> "depends", point |-> 1, cand |-> 1] \in Frame
      BY DEF Frame
    <3> QED
      BY <3>1
  <2>1. status' = [status EXCEPT ![b] = "creating"] /\ stack' = << f >> \o rest
    BY <1>3, <2>0 DEF WireBean
  <2>2. Progress'
    BY <2>0, <2>1, Begins DEF WiringTypeOK
  <2>3. /\ Len(rest) \in Nat /\ Len(stack') = Len(rest) + 1 /\ stack'[1] = f
        /\ f.stage = "depends"
        /\ \A i \in 1..Len(rest) : stack'[i + 1] = rest[i]
    BY <2>0, <2>1, PushedType
  <2>4. ASSUME NEW i \in 1..Len(rest) + 1, stack'[i].stage = "fields"
        PROVE  stack'[i].bean \in built
    <3>1. i # 1
      BY <2>3, <2>4
    <3>2. i - 1 \in 1..Len(rest) /\ (i - 1) + 1 = i
      BY <2>3, <3>1
    <3>3. stack'[i] = rest[i - 1]
      BY <2>3, <3>2
    <3> QED
      BY <2>4, <3>2, <3>3
  <2> QED
    BY <2>1, <2>2, <2>3, <2>4 DEF CreatedIsBuilt, FieldsOfBuilt, WiringTypeOK
<1> QED
  BY <1>1, <1>2, <1>3

\* What the innermost frame has to say.
LEMMA TopWires ==
    ASSUME WiringTypeOK, stack # << >>, Progress, ~err, HasPoint
    PROVE  /\ Here.cands \in Seq(Bean) /\ Top.cand \in Nat \ {0}
           /\ Here.lazy => Top.cand = 1
           /\ \A k \in DOMAIN Here.cands : k < Top.cand => Here.cands[k] \in built
<1>1. Top = stack[1] /\ 1 \in 1..Len(stack) /\ Given(1) = built
  BY TopType DEF WiringTypeOK, Given
<1>2. Wires(Points(Top.bean, Top.stage), Top, built)
  BY <1>1 DEF Progress
<1>3. Here \in Point /\ Top \in Frame
  BY HereType
<1> QED
  BY <1>2, <1>3 DEF Wires, HasPoint, Here, Point, Frame

\* BuiltInv is inductive.
LEMMA BuiltStep ==
    ASSUME WiringTypeOK, WiringTypeOK', OrderInv, BuiltInv, [Next]_vars
    PROVE  BuiltInv'
<1>a. program' = program
  BY DEF Next, Step, Terminated, vars, WireRoot, DeferField, RefusePoint, WireCandidate,
         SetPoint, DependsDone, Construct, ConstructFails, ConstructsNil, Initialize,
         ReturnError, WiringFails, StartLazy, SetLazyField, SortDestroyers, DestroyNext,
         Closed
<1> SUFFICES ASSUME ~program.force
             PROVE  /\ (\A h \in holes : h.lazy)'
                    /\ LaziesAreLazy' /\ CreatedIsBuilt' /\ FieldsOfBuilt' /\ Progress'
  BY <1>a DEF BuiltInv
<1>b. /\ \A h \in holes : h.lazy
      /\ LaziesAreLazy /\ CreatedIsBuilt /\ FieldsOfBuilt /\ Progress
  BY DEF BuiltInv
<1>c. stack \in Seq(Frame) /\ Len(stack) \in Nat
  BY DEF WiringTypeOK
<1>p. \A c, stage : Points(c, stage)' = Points(c, stage)
  BY <1>a, PointsKept
\* A step that leaves the path, or ends with an error.
<1>d. ASSUME UNCHANGED <<holes, lazies, status, built, stack>>, err' = err \/ err'
      PROVE  /\ (\A h \in holes : h.lazy)'
             /\ LaziesAreLazy' /\ CreatedIsBuilt' /\ FieldsOfBuilt' /\ Progress'
  BY <1>b, <1>d, <1>p DEF LaziesAreLazy, CreatedIsBuilt, FieldsOfBuilt, Progress, Given
\* A step that moves the innermost frame on.
<1>e. ASSUME stack # << >>, NEW f \in Frame, f.bean = Top.bean, stack' = Replaced(f),
             built \subseteq built', f.stage = "fields" => Top.bean \in built'
      PROVE  FieldsOfBuilt'
  <2>1. /\ Len(stack') = Len(stack) /\ stack'[1] = f
        /\ \A i \in 2..Len(stack) : stack'[i] = stack[i]
    BY <1>c, <1>e, ReplacedType
  <2>2. \A i \in 1..Len(stack) : i = 1 \/ i \in 2..Len(stack)
    BY <1>c
  <2> QED
    BY <1>b, <1>e, <2>1, <2>2 DEF FieldsOfBuilt
<1>f. ASSUME stack # << >> PROVE Top \in Frame /\ (Top.stage = "fields" => Top.bean \in built)
  <2>1. Top = stack[1] /\ 1 \in 1..Len(stack)
    BY <1>c, <1>f, TopType
  <2> QED
    BY <1>b, <1>f, <2>1, HereType DEF FieldsOfBuilt
<1>1. CASE WireRoot
  <2>1. program.roots[pos] \in Bean
    <3>1. program.roots \in Seq(Bean) /\ pos \in DOMAIN program.roots
      BY <1>1 DEF WireRoot, WiringTypeOK, ProgramType
    <3> QED
      BY <3>1
  <2>2. << >> \in Seq(Frame) /\ Len(<< >>) = 0 /\ 1..0 = {}
    OBVIOUS
  <2>3. WireBean(program.roots[pos], << >>) /\ UNCHANGED <<program, built, holes, lazies>>
    BY <1>1 DEF WireRoot
  <2>4. Waiting(<< >>, program.roots[pos])
    BY <2>2 DEF Waiting
  <2>5. CreatedIsBuilt' /\ FieldsOfBuilt' /\ Progress'
    BY <1>b, <2>1, <2>2, <2>3, <2>4, BuiltCalled
  <2> QED
    BY <1>b, <2>3, <2>5 DEF LaziesAreLazy
<1>2. CASE DeferField
  <2>1. /\ stack # << >> /\ ~err /\ HasPoint /\ Here.lazy
        /\ lazies' = Append(lazies, [bean |-> Top.bean, point |-> Here])
        /\ stack' = Replaced([Top EXCEPT !.point = @ + 1])
        /\ UNCHANGED <<holes, status, built>>
    BY <1>2 DEF DeferField, InFrame, Replaced
  <2>2. PICK f \in Frame : f = [Top EXCEPT !.point = @ + 1]
    BY <2>1, MovedType
  <2>3. f.bean = Top.bean /\ f.stage = Top.stage /\ f.cand = Top.cand
    BY <1>f, <2>1, <2>2 DEF Frame
  <2>4. f.cand = 1
    BY <1>b, <2>1, <2>3, TopWires
  <2>5. Progress'
    BY <1>a, <1>b, <2>1, <2>2, <2>3, <2>4, FirstCandidate, MovesOn DEF WiringTypeOK
  <2>6. FieldsOfBuilt'
    BY <1>e, <1>f, <2>1, <2>2, <2>3
  <2>7. LaziesAreLazy'
    <3>1. lazies \in Seq([bean : Bean, point : Point])
      BY DEF WiringTypeOK
    <3> QED
      BY <1>b, <2>1, <3>1 DEF LaziesAreLazy
  <2> QED
    BY <1>b, <2>1, <2>5, <2>6, <2>7 DEF CreatedIsBuilt
<1>3. CASE RefusePoint
  BY <1>3, <1>d DEF RefusePoint
<1>4. CASE WireCandidate
  <2>1. /\ stack # << >> /\ ~err /\ HasPoint /\ ~Here.lazy
        /\ Top.cand \in DOMAIN Here.cands
        /\ UNCHANGED <<program, built, holes, lazies>>
    BY <1>4 DEF WireCandidate, InFrame
  <2>2. PICK b \in Bean : b = Here.cands[Top.cand]
    BY <2>1, HereType
  <2>3. PICK f \in Frame : f = [Top EXCEPT !.cand = @ + 1]
    BY <2>1, MovedType
  <2>4. /\ f.bean = Top.bean /\ f.stage = Top.stage /\ f.point = Top.point
        /\ f.cand = Top.cand + 1
    BY <1>f, <2>1, <2>3 DEF Frame
  <2>5. PICK rest \in Seq(Frame) : rest = Replaced(f)
    BY <2>1, <2>3, <2>4, ReplacedBeans
  <2>6. /\ Len(rest) = Len(stack) /\ rest[1] = f
        /\ \A i \in 2..Len(stack) : rest[i] = stack[i]
        /\ \A i \in 1..Len(stack) : rest[i].bean = stack[i].bean
    BY <1>c, <2>1, <2>4, <2>5, ReplacedType, ReplacedBeans
  <2>7. WireBean(b, rest)
    BY <1>4, <2>2, <2>3, <2>5 DEF WireCandidate, Replaced
  <2>8. Wires(Points(f.bean, f.stage), f, built \cup {b})
    <3>1. /\ Here.cands \in Seq(Bean) /\ Top.cand \in Nat \ {0}
          /\ \A k \in DOMAIN Here.cands : k < Top.cand => Here.cands[k] \in built
      BY <1>b, <2>1, TopWires
    <3>2. ASSUME NEW k \in DOMAIN Here.cands, k < Top.cand + 1
          PROVE  Here.cands[k] \in built \cup {b}
      <4>1. k \in Nat
        BY <3>1, <3>2
      <4>2. k < Top.cand \/ k = Top.cand
        BY <3>1, <3>2, <4>1
      <4> QED
        BY <2>2, <3>1, <4>2
    <3> QED
      BY <2>1, <2>4, <3>2 DEF Wires, Here
  <2>9. Waiting(rest, b)
    <3>1. ASSUME NEW j \in 1..Len(stack), j # 1
          PROVE  Wires(Points(rest[j].bean, rest[j].stage), rest[j],
                       built \cup {rest[j - 1].bean})
      <4>1. j \in 2..Len(stack) /\ j - 1 \in 1..Len(stack)
        BY <1>c, <3>1
      <4>2. Given(j) = built \cup {rest[j - 1].bean} /\ rest[j] = stack[j]
        BY <2>6, <3>1, <4>1 DEF Given
      <4> QED
        BY <1>b, <2>1, <4>2 DEF Progress
    <3> QED
      BY <2>6, <2>8, <3>1 DEF Waiting
  <2>10. \A j \in 1..Len(rest) : rest[j].stage = "fields" => rest[j].bean \in built
    <3>1. \A i \in 1..Len(stack) : i = 1 \/ i \in 2..Len(stack)
      BY <1>c
    <3> QED
      BY <1>b, <1>f, <2>1, <2>4, <2>6, <3>1 DEF FieldsOfBuilt
  <2>11. CreatedIsBuilt' /\ FieldsOfBuilt' /\ Progress'
    BY <1>b, <2>1, <2>7, <2>9, <2>10, BuiltCalled
  <2> QED
    BY <1>b, <2>1, <2>11 DEF LaziesAreLazy
<1>5. CASE SetPoint
  <2>1. /\ stack # << >> /\ ~err /\ HasPoint /\ Top.cand \notin DOMAIN Here.cands
        /\ holes' = holes \cup (IF Top.stage = "depends" THEN {} ELSE NewHoles(Top.bean, Here))
        /\ stack' = Replaced([Top EXCEPT !.point = @ + 1, !.cand = 1])
        /\ UNCHANGED <<lazies, status, built>>
    BY <1>5 DEF SetPoint, InFrame, Replaced
  <2>2. PICK f \in Frame : f = [Top EXCEPT !.point = @ + 1, !.cand = 1]
    BY <2>1, MovedType
  <2>3. f.bean = Top.bean /\ f.stage = Top.stage /\ f.cand = 1
    BY <1>f, <2>1, <2>2 DEF Frame
  <2>4. Progress'
    BY <1>a, <1>b, <2>1, <2>2, <2>3, FirstCandidate, MovesOn DEF WiringTypeOK
  <2>5. FieldsOfBuilt'
    BY <1>e, <1>f, <2>1, <2>2, <2>3
  <2>6. NewHoles(Top.bean, Here) = {}
    <3>1. /\ Here.cands \in Seq(Bean) /\ Top.cand \in Nat \ {0}
          /\ \A k \in DOMAIN Here.cands : k < Top.cand => Here.cands[k] \in built
      BY <1>b, <2>1, TopWires
    <3>2. \A k \in DOMAIN Here.cands : k < Top.cand
      BY <2>1, <3>1
    <3>3. ToSet(Here.cands) \subseteq built
      BY <3>1, <3>2 DEF ToSet
    <3> QED
      BY <3>3 DEF NewHoles
  <2> QED
    BY <1>b, <2>1, <2>4, <2>5, <2>6 DEF CreatedIsBuilt, LaziesAreLazy
\* The bean's next stage.
<1>6. ASSUME NEW stage \in Stage, stack # << >>, ~err, NextStage(stage), built \subseteq built',
             stage = "fields" => Top.bean \in built'
      PROVE  FieldsOfBuilt' /\ Progress'
  <2>1. PICK f \in Frame : f = [Top EXCEPT !.stage = stage, !.point = 1, !.cand = 1]
    BY <1>6, MovedType
  <2>2. f.bean = Top.bean /\ f.stage = stage /\ f.cand = 1
    BY <1>6, <1>f, <2>1 DEF Frame
  <2>3. stack' = Replaced(f)
    BY <1>6, <2>1 DEF NextStage, Replaced
  <2> QED
    BY <1>6, <1>a, <1>b, <1>e, <2>2, <2>3, FirstCandidate, MovesOn DEF WiringTypeOK
<1>7. CASE DependsDone
  <2>1. /\ stack # << >> /\ ~err /\ NextStage("ctor")
        /\ UNCHANGED <<lazies, holes, status, built>>
    BY <1>7 DEF DependsDone, StageDone, InFrame
  <2> QED
    BY <1>6, <1>b, <2>1 DEF Stage, CreatedIsBuilt, LaziesAreLazy
<1>8. CASE Construct
  <2>1. /\ stack # << >> /\ ~err /\ NextStage("fields") /\ built' = built \cup {Top.bean}
        /\ status' = [status EXCEPT ![Top.bean] = "created"]
        /\ UNCHANGED <<lazies, holes>>
    BY <1>8 DEF Construct, StageDone, InFrame
  <2>2. CreatedIsBuilt'
    BY <1>b, <2>1 DEF CreatedIsBuilt, WiringTypeOK
  <2> QED
    BY <1>6, <1>b, <2>1, <2>2 DEF Stage, LaziesAreLazy
<1>9. CASE ConstructFails
  BY <1>9, <1>d DEF ConstructFails
\* The innermost frame goes with an error.
<1>10. ASSUME stack # << >>, stack' = Tail(stack), err', UNCHANGED <<status, built, lazies, holes>>
       PROVE  /\ (\A h \in holes : h.lazy)'
              /\ LaziesAreLazy' /\ CreatedIsBuilt' /\ FieldsOfBuilt' /\ Progress'
  BY <1>10, <1>b, TailWaits DEF CreatedIsBuilt, LaziesAreLazy, FieldsOfBuilt, Progress
<1>11. CASE ConstructsNil
  BY <1>10, <1>11 DEF ConstructsNil, StageDone, InFrame
<1>12. CASE Initialize
  <2>1. /\ stack # << >> /\ ~err /\ Top.stage = "fields" /\ stack' = Tail(stack)
        /\ UNCHANGED <<lazies, holes, built>>
        /\ \/ err' /\ UNCHANGED status
           \/ status' = [status EXCEPT ![Top.bean] = "wired"] /\ UNCHANGED err
    BY <1>12 DEF Initialize, StageDone, InFrame
  <2>2. CASE err' /\ UNCHANGED status
    BY <1>10, <2>1, <2>2
  <2>3. CASE status' = [status EXCEPT ![Top.bean] = "wired"]
    <3>1. Top.bean \in built /\ Top.bean \in Bean
      BY <1>f, <2>1, HereType
    <3>2. CreatedIsBuilt'
      BY <1>b, <2>1, <2>3, <3>1 DEF CreatedIsBuilt, WiringTypeOK
    <3>3. Tail(stack) \in Seq(Frame)
      BY <1>c, <2>1, TopType
    <3>4. Progress'
      BY <1>a, <1>b, <2>1, <3>1, <3>3, TailWaits, Returns
    <3>5. FieldsOfBuilt'
      BY <1>b, <2>1, TailWaits DEF FieldsOfBuilt
    <3> QED
      BY <1>b, <2>1, <3>2, <3>4, <3>5 DEF LaziesAreLazy
  <2> QED
    BY <2>1, <2>2, <2>3
<1>13. CASE ReturnError
  BY <1>10, <1>13 DEF ReturnError
<1>14. CASE WiringFails
  BY <1>14, <1>d DEF WiringFails
<1>15. CASE StartLazy
  BY <1>15, <1>d DEF StartLazy
<1>16. CASE SetLazyField
  <2>1. /\ pos \in DOMAIN lazies /\ UNCHANGED <<lazies, status, built, stack, err>>
        /\ \/ holes' = holes
           \/ holes' = holes \cup NewHoles(lazies[pos].bean, lazies[pos].point)
    BY <1>16 DEF SetLazyField
  <2>2. \A h \in NewHoles(lazies[pos].bean, lazies[pos].point) : h.lazy
    BY <1>b, <2>1 DEF NewHoles, LaziesAreLazy
  <2>3. LaziesAreLazy' /\ CreatedIsBuilt' /\ FieldsOfBuilt' /\ Progress'
    BY <1>b, <1>p, <2>1
       DEF LaziesAreLazy, CreatedIsBuilt, FieldsOfBuilt, Progress, Given
  <2> QED
    BY <1>b, <2>1, <2>2, <2>3
<1>17. CASE SortDestroyers
  BY <1>17, <1>d DEF SortDestroyers
<1>18. CASE DestroyNext
  BY <1>18, <1>d DEF DestroyNext
<1>19. CASE Closed
  BY <1>19, <1>d DEF Closed
<1>20. CASE UNCHANGED vars
  BY <1>20, <1>d DEF vars
<1> QED
  BY <1>1, <1>2, <1>3, <1>4, <1>5, <1>7, <1>8, <1>9, <1>11, <1>12, <1>13,
     <1>14, <1>15, <1>16, <1>17, <1>18, <1>19, <1>20 DEF Next, Step, Terminated

\* Unless injections are nullable throughout, whatever is injected eagerly has
\* a value when it is injected: construction cycles are refused, and a bean on
\* the path that is handed out has been constructed (injecting.go:593-601).
THEOREM InjectionsAreBuilt == Spec => []EagerInjectionsAreBuilt
<1>1. Init => BuiltInv
  <2> SUFFICES ASSUME Init PROVE BuiltInv
    OBVIOUS
  <2>1. /\ stack = << >> /\ Len(stack) = 0 /\ 1..0 = {}
        /\ lazies = << >> /\ DOMAIN lazies = {} /\ holes = {}
    BY DEF Init
  <2>2. \A b \in Bean : status[b] = "resolved"
    BY DEF Init
  <2> QED
    BY <2>1, <2>2 DEF BuiltInv, LaziesAreLazy, CreatedIsBuilt, FieldsOfBuilt, Progress
<1>2. WiringTypeOK /\ WiringTypeOK' /\ OrderInv /\ BuiltInv /\ [Next]_vars => BuiltInv'
  BY BuiltStep
<1>3. WiringTypeOK /\ WiringTypeOK' /\ OrderInv /\ [Next]_vars => OrderInv'
  BY OrderStep
<1>4. BuiltInv => EagerInjectionsAreBuilt
  BY DEF BuiltInv, EagerInjectionsAreBuilt
<1> QED
  BY <1>1, <1>2, <1>3, <1>4, OrderStart, WiringTyping, PTL DEF Spec

-----------------------------------------------------------------------------
(* The order of initialization. *)

\* What bean x was given is wired and recorded, or needs x.
Settled(x) ==
    {y \in Bean : \/ status[y] = "wired" /\ y \in deps[x] \cap known
                  \/ x \in Needs(y)}

\* The injection points of a bean by stage, and the stages before one.
Plan(b) == [stage \in Stage |-> Points(b, stage)]

Earlier(stage) == CASE stage = "depends" -> {}
                    [] stage = "ctor"    -> {"depends"}
                    [] stage = "fields"  -> {"depends", "ctor"}

\* What frame f of a bean with that plan has wired is in S: the candidates of
\* the stages before its own, of the points before its point and those before
\* its candidate.
Met(plan, f, S) ==
    /\ \A stage \in Earlier(f.stage) : Candidates(plan[stage]) \subseteq S
    /\ \A p \in DOMAIN plan[f.stage] :
          p < f.point /\ ~plan[f.stage][p].lazy => ToSet(plan[f.stage][p].cands) \subseteq S
    /\ Wires(plan[f.stage], f, S)

\* What the i-th frame has: that, and the bean of the frame above, which will
\* be wired when that frame returns without an error.
Served(i) == Settled(stack[i].bean) \cup (IF i = 1 THEN {} ELSE {stack[i - 1].bean})

WiredIsFinished == \A b \in Bean : status[b] = "wired" => finish[b] # 0
UnderWay   == ~err => \A b \in Bean : status[b] \in {"creating", "created"} => OnPath(b)
KnownIsMet == \A b \in known : status[b] # "resolved"
PathMet    == ~err => \A i \in 1..Len(stack) : Met(Plan(stack[i].bean), stack[i], Served(i))
WiredMet   == \A x \in Bean : status[x] = "wired" => EagerTargets(x) \subseteq Settled(x)

\* Each bean of the path was called by the one below it, and is needed by all
\* that are below it.
CalledBelow ==
    /\ \A i \in 1..Len(stack) :
          i > 1 => stack[i - 1].bean \in deps[stack[i].bean] \cap known
    /\ \A i, k \in 1..Len(stack) : i < k => stack[i].bean \in Needs(stack[k].bean)

\* InitializedInOrder, and why: what a frame has passed is wired, or needs the
\* frame's bean because it waits for it further down the path.
MetParts ==
    /\ WiredIsFinished /\ UnderWay /\ KnownIsMet
    /\ CalledBelow /\ PathMet /\ WiredMet

MetInv == ~program.force => MetParts

\* What a bean needs are beans; those of a stage are among them.
LEMMA TargetsType ==
    ASSUME program \in ProgramType, NEW b \in Bean
    PROVE  /\ EagerTargets(b) \subseteq Bean
           /\ EagerTargets(b) = UNION {Candidates(Plan(b)[stage]) : stage \in Stage}
<1>1. ASSUME NEW stage \in Stage PROVE Plan(b)[stage] = Points(b, stage) /\ Plan(b)[stage] \in Seq(Point)
  BY PointsType DEF Plan, Stage
<1>2. ASSUME NEW ps \in Seq(Point) PROVE Candidates(ps) \subseteq Bean
  <2>1. ASSUME NEW i \in DOMAIN ps PROVE ToSet(ps[i].cands) \subseteq Bean
    <3>1. ps[i] \in Point
      BY SeqElement
    <3>2. ps[i].cands \in Seq(Bean)
      BY <3>1 DEF Point
    <3> QED
      BY <3>2 DEF ToSet
  <2> QED
    BY <2>1 DEF Candidates
<1>3. Candidates(Points(b, "depends")) = ToSet(program.depends[b])
  <2> DEFINE p == [cands |-> program.depends[b], many |-> TRUE, nullable |-> TRUE, lazy |-> FALSE]
  <2>1. Points(b, "depends") = << p >>
    BY DEF Points
  <2>2. DOMAIN << p >> = {1} /\ << p >>[1] = p /\ ~p.lazy /\ p.cands = program.depends[b]
    OBVIOUS
  <2> HIDE DEF p
  <2>3. Candidates(<< p >>) = ToSet(p.cands)
    BY <2>2 DEF Candidates
  <2> QED
    BY <2>1, <2>2, <2>3
<1>4. /\ Points(b, "ctor") = program.ctor[b]
      /\ Points(b, "fields") = program.fields[b]
  BY DEF Points
<1>5. EagerTargets(b) = Candidates(Points(b, "depends")) \cup Candidates(Points(b, "ctor"))
                           \cup Candidates(Points(b, "fields"))
  BY <1>3, <1>4 DEF EagerTargets
<1> QED
  BY <1>1, <1>2, <1>5 DEF Stage

\* A bean needs its targets, and what it needs has targets that it needs.
LEMMA NeedsDirect ==
    ASSUME NEW x, NEW y \in Bean, y \in EagerTargets(x)
    PROVE  y \in Needs(x)
  BY DEF Needs

LEMMA NeedsStep ==
    ASSUME NEW x, NEW y \in Needs(x), NEW z \in Bean, z \in EagerTargets(y)
    PROVE  z \in Needs(x)
<1> SUFFICES ASSUME NEW S \in SUBSET Bean, EagerTargets(x) \subseteq S,
                    \A c \in S : EagerTargets(c) \subseteq S
             PROVE  z \in S
  BY DEF Needs
<1>1. y \in S
  BY DEF Needs
<1> QED
  BY <1>1

\* A program that stays has the same needs.
LEMMA NeedsKept ==
    ASSUME UNCHANGED program
    PROVE  /\ \A b : EagerTargets(b)' = EagerTargets(b)
           /\ \A b : Needs(b)' = Needs(b)
           /\ \A b : Plan(b)' = Plan(b)
<1>1. \A b : EagerTargets(b)' = EagerTargets(b)
  BY DEF EagerTargets
<1>2. \A b : Needs(b)' = Needs(b)
  BY <1>1 DEF Needs
<1>3. \A b : Plan(b)' = Plan(b)
  BY PointsKept DEF Plan
<1> QED
  BY <1>1, <1>2, <1>3

\* What is settled stays so as long as wired beans stay wired.
LEMMA SettledGrows ==
    ASSUME UNCHANGED program, known \subseteq known',
           \A b \in Bean : status[b] = "wired" => status'[b] = "wired",
           \A b \in Bean : deps[b] \subseteq deps'[b]
    PROVE  \A x \in Bean : Settled(x) \subseteq Settled(x)'
  BY NeedsKept DEF Settled

\* A larger set holds what was met.
LEMMA MetMore ==
    ASSUME NEW plan, NEW f, NEW S, NEW T, S \subseteq T, Met(plan, f, S)
    PROVE  Met(plan, f, T)
  BY WiresMore DEF Met

\* The points of a frame.
LEMMA PlanType ==
    ASSUME program \in ProgramType, NEW f \in Frame
    PROVE  /\ f.bean \in Bean /\ f.stage \in Stage
           /\ Plan(f.bean)[f.stage] = Points(f.bean, f.stage)
           /\ Points(f.bean, f.stage) \in Seq(Point)
  BY PointsType DEF Frame, Stage, Plan

\* The frames of the functions that wait for wireBean(b), innermost first.
Waits(rest, b) ==
    \A j \in 1..Len(rest) :
        Met(Plan(rest[j].bean), rest[j],
            Settled(rest[j].bean) \cup (IF j = 1 THEN {b} ELSE {rest[j - 1].bean}))

\* wireBean(b) returns, and b is settled for the bean that called it.
LEMMA Resumes ==
    ASSUME NEW rest \in Seq(Frame), NEW b, Waits(rest, b), stack' = rest,
           UNCHANGED program, \A x \in Bean : Settled(x) \subseteq Settled(x)',
           rest # << >> => b \in Settled(rest[1].bean)'
    PROVE  PathMet'
<1>1. \A c : Plan(c)' = Plan(c)
  BY NeedsKept
<1>2. ASSUME NEW j \in 1..Len(rest)
      PROVE  Met(Plan(rest[j].bean), rest[j], Served(j)')
  <2>1. rest[j].bean \in Bean /\ rest # << >>
    <3>1. rest[j] \in Frame
      OBVIOUS
    <3> QED
      BY <3>1 DEF Frame
  <2>2. Settled(rest[j].bean) \cup (IF j = 1 THEN {b} ELSE {rest[j - 1].bean}) \subseteq Served(j)'
    BY <2>1 DEF Served
  <2> QED
    BY <2>2, MetMore DEF Waits
<1> QED
  BY <1>1, <1>2 DEF PathMet

\* wireBean(b) begins, in a frame of its own.
LEMMA Enters ==
    ASSUME program \in ProgramType, NEW rest \in Seq(Frame), NEW b \in Bean, Waits(rest, b),
           stack' = << [bean |-> b, stage |-> "depends", point |-> 1, cand |-> 1] >> \o rest,
           UNCHANGED program, \A x \in Bean : Settled(x) \subseteq Settled(x)'
    PROVE  PathMet'
<1>0. PICK f \in Frame : f = [bean |-> b, stage |-> "depends", point |-> 1, cand |-> 1]
  <2>1. [bean |-> b, stage |-> "depends", point |-> 1, cand |-> 1] \in Frame
    BY DEF Frame
  <2> QED
    BY <2>1
<1>1. \A c : Plan(c)' = Plan(c)
  BY NeedsKept
<1>2. /\ Len(rest) \in Nat /\ Len(stack') = Len(rest) + 1
      /\ stack'[1] = f /\ f.bean = b /\ f.cand = 1 /\ f.point = 1 /\ f.stage = "depends"
      /\ \A i \in 1..Len(rest) : stack'[i + 1] = rest[i]
  BY <1>0, PushedType
<1>3. Met(Plan(f.bean), f, Served(1)')
  <2>1. Wires(Plan(f.bean)[f.stage], f, Served(1)')
    BY <1>2, FirstCandidate, PlanType
  <2>2. Earlier(f.stage) = {}
    BY <1>2 DEF Earlier
  <2>3. \A p \in DOMAIN Plan(f.bean)[f.stage] : ~(p < f.point)
    BY <1>2, PlanType
  <2> QED
    BY <2>1, <2>2, <2>3 DEF Met
<1>4. ASSUME NEW j \in 1..Len(rest)
      PROVE  Met(Plan(rest[j].bean), rest[j], Served(j + 1)')
  <2>0. rest[j].bean \in Bean
    <3>1. rest[j] \in Frame
      OBVIOUS
    <3> QED
      BY <3>1 DEF Frame
  <2>1. stack'[j].bean = IF j = 1 THEN b ELSE rest[j - 1].bean
    <3>1. CASE j = 1
      BY <1>2, <3>1
    <3>2. CASE j # 1
      <4>1. j - 1 \in 1..Len(rest) /\ (j - 1) + 1 = j
        BY <1>2, <3>2
      <4> QED
        BY <1>2, <3>2, <4>1
    <3> QED
      BY <3>1, <3>2
  <2>2. j + 1 # 1 /\ (j + 1) - 1 = j /\ stack'[j + 1] = rest[j]
    BY <1>2
  <2>3. Settled(rest[j].bean) \cup (IF j = 1 THEN {b} ELSE {rest[j - 1].bean})
           \subseteq Served(j + 1)'
    BY <2>0, <2>1, <2>2 DEF Served
  <2> QED
    BY <2>3, MetMore DEF Waits
<1>5. ASSUME NEW i \in 1..Len(rest) + 1
      PROVE  Met(Plan(stack'[i].bean), stack'[i], Served(i)')
  <2>1. CASE i = 1
    BY <1>2, <1>3, <2>1
  <2>2. CASE i # 1
    <3>1. i - 1 \in 1..Len(rest) /\ (i - 1) + 1 = i
      BY <1>2, <2>2
    <3>2. stack'[i] = rest[i - 1]
      BY <1>2, <3>1
    <3> QED
      BY <1>4, <3>1, <3>2
  <2> QED
    BY <2>1, <2>2
<1> QED
  BY <1>1, <1>2, <1>5 DEF PathMet

\* The innermost frame moves on, past what is met.
LEMMA Advances ==
    ASSUME WiringTypeOK, stack # << >>, PathMet, ~err,
           NEW f \in Frame, f.bean = Top.bean, stack' = Replaced(f), UNCHANGED program,
           \A x \in Bean : Settled(x) \subseteq Settled(x)',
           Met(Plan(f.bean), f, Settled(f.bean)')
    PROVE  PathMet'
<1>1. \A c : Plan(c)' = Plan(c)
  BY NeedsKept
<1>2. /\ Len(stack) \in Nat /\ Len(stack') = Len(stack) /\ stack'[1] = f
      /\ \A i \in 2..Len(stack) : stack'[i] = stack[i]
  BY ReplacedType DEF WiringTypeOK
<1>3. \A i \in 1..Len(stack) : stack'[i].bean = stack[i].bean
  BY ReplacedBeans
<1>4. ASSUME NEW i \in 1..Len(stack)
      PROVE  Met(Plan(stack'[i].bean), stack'[i], Served(i)')
  <2>1. CASE i = 1
    <3>1. Settled(f.bean)' \subseteq Served(i)'
      BY <1>2, <2>1 DEF Served
    <3> QED
      BY <1>2, <2>1, <3>1, MetMore
  <2>2. CASE i # 1
    <3>1. i \in 2..Len(stack) /\ i - 1 \in 1..Len(stack)
      BY <1>2, <2>2
    <3>2. stack'[i] = stack[i] /\ stack[i].bean \in Bean
      <4>1. stack[i] \in Frame
        BY DEF WiringTypeOK
      <4> QED
        BY <1>2, <3>1, <4>1 DEF Frame
    <3>3. Served(i) \subseteq Served(i)'
      BY <1>3, <2>2, <3>1, <3>2 DEF Served
    <3> QED
      BY <3>2, <3>3, MetMore DEF PathMet
  <2> QED
    BY <2>1, <2>2
<1> QED
  BY <1>1, <1>2, <1>4 DEF PathMet


\* The innermost frame has nothing above it.
LEMMA TopMet ==
    ASSUME WiringTypeOK, stack # << >>, PathMet, ~err
    PROVE  /\ Top \in Frame /\ Top = stack[1] /\ 1 \in 1..Len(stack)
           /\ Met(Plan(Top.bean), Top, Settled(Top.bean))
           /\ Plan(Top.bean)[Top.stage] = Points(Top.bean, Top.stage)
           /\ Points(Top.bean, Top.stage) \in Seq(Point)
<1>1. Top \in Frame /\ Top = stack[1] /\ 1 \in 1..Len(stack)
  BY TopType DEF WiringTypeOK
<1>2. Served(1) = Settled(Top.bean)
  BY <1>1 DEF Served
<1>3. program \in ProgramType
  BY DEF WiringTypeOK
<1> QED
  BY <1>1, <1>2, <1>3, PlanType DEF PathMet

\* When its points are used up, the candidates of the whole stage are met.
LEMMA StageMet ==
    ASSUME WiringTypeOK, stack # << >>, PathMet, ~err, ~HasPoint
    PROVE  Candidates(Plan(Top.bean)[Top.stage]) \subseteq Settled(Top.bean)
<1>1. PICK ps \in Seq(Point) : ps = Points(Top.bean, Top.stage)
  BY TopMet
<1>2. Plan(Top.bean)[Top.stage] = ps
  BY <1>1, TopMet
<1>3. \A p \in DOMAIN ps : p < Top.point
  <2>1. Top.point \in Nat \ {0} /\ Top.point \notin DOMAIN ps
    BY <1>1, TopMet DEF Frame, HasPoint
  <2> QED
    BY <2>1
<1>4. \A p \in DOMAIN ps : ~ps[p].lazy => ToSet(ps[p].cands) \subseteq Settled(Top.bean)
  BY <1>2, <1>3, TopMet DEF Met
<1> QED
  BY <1>2, <1>4 DEF Candidates

\* What is left when the innermost frame goes waits for its bean.
LEMMA TailMet ==
    ASSUME WiringTypeOK, stack # << >>, PathMet, ~err
    PROVE  Waits(Tail(stack), Top.bean)
<1>1. /\ Len(stack) \in Nat \ {0} /\ Len(Tail(stack)) = Len(stack) - 1
      /\ \A i \in 1..Len(stack) - 1 : Tail(stack)[i] = stack[i + 1]
      /\ Top = stack[1]
  BY TopType DEF WiringTypeOK
<1>2. ASSUME NEW j \in 1..Len(stack) - 1
      PROVE  /\ j + 1 \in 1..Len(stack) /\ j + 1 # 1 /\ (j + 1) - 1 = j
             /\ Tail(stack)[j] = stack[j + 1]
             /\ j # 1 => j - 1 \in 1..Len(stack) - 1 /\ Tail(stack)[j - 1] = stack[j]
  <2>1. j # 1 => j - 1 \in 1..Len(stack) - 1 /\ (j - 1) + 1 = j
    BY <1>1
  <2> QED
    BY <1>1, <2>1
<1>3. ASSUME NEW j \in 1..Len(stack) - 1
      PROVE  Met(Plan(Tail(stack)[j].bean), Tail(stack)[j],
                 Settled(Tail(stack)[j].bean)
                    \cup (IF j = 1 THEN {Top.bean} ELSE {Tail(stack)[j - 1].bean}))
  <2>1. Served(j + 1) = Settled(Tail(stack)[j].bean)
                           \cup (IF j = 1 THEN {Top.bean} ELSE {Tail(stack)[j - 1].bean})
    BY <1>1, <1>2 DEF Served
  <2> QED
    BY <1>2, <2>1 DEF PathMet
<1>4. 1..Len(Tail(stack)) = 1..Len(stack) - 1
  BY <1>1
<1> QED
  BY <1>3, <1>4 DEF Waits

\* The path without its innermost frame: who called whom stays.
LEMMA TailCalled ==
    ASSUME WiringTypeOK, stack # << >>, CalledBelow, stack' = Tail(stack),
           UNCHANGED <<program, deps, known>>
    PROVE  /\ CalledBelow'
           /\ stack' # << >> => Top.bean \in deps[stack'[1].bean] \cap known
           /\ \A b : OnPath(b) => b = Top.bean \/ OnPath(b)'
<1>1. /\ Len(stack) \in Nat \ {0} /\ Len(stack') = Len(stack) - 1
      /\ \A i \in 1..Len(stack) - 1 : i + 1 \in 1..Len(stack) /\ stack'[i] = stack[i + 1]
      /\ Top = stack[1] /\ DOMAIN stack = 1..Len(stack) /\ DOMAIN stack' = 1..Len(stack) - 1
  BY TopType DEF WiringTypeOK
<1>2. \A b : Needs(b)' = Needs(b)
  BY NeedsKept
<1>3. ASSUME NEW i \in 1..Len(stack) - 1, i > 1
      PROVE  stack'[i - 1].bean \in deps[stack'[i].bean] \cap known
  <2>1. i - 1 \in 1..Len(stack) - 1 /\ (i - 1) + 1 = i /\ (i + 1) - 1 = i
    BY <1>1, <1>3
  <2>2. stack'[i] = stack[i + 1] /\ stack'[i - 1] = stack[i]
    BY <1>1, <2>1
  <2> QED
    BY <1>1, <2>1, <2>2 DEF CalledBelow
<1>4. ASSUME NEW i \in 1..Len(stack) - 1, NEW k \in 1..Len(stack) - 1, i < k
      PROVE  stack'[i].bean \in Needs(stack'[k].bean)
  BY <1>1, <1>4 DEF CalledBelow
<1>5. CalledBelow'
  BY <1>1, <1>2, <1>3, <1>4 DEF CalledBelow
<1>6. ASSUME stack' # << >> PROVE Top.bean \in deps[stack'[1].bean] \cap known
  <2>1. Len(stack') # 0
    BY <1>6 DEF WiringTypeOK
  <2>2. 1 \in 1..Len(stack) - 1 /\ 2 \in 1..Len(stack) /\ 2 - 1 = 1 /\ 1 + 1 = 2
    BY <1>1, <2>1
  <2> QED
    BY <1>1, <2>2 DEF CalledBelow
<1>7. ASSUME NEW b, OnPath(b), b # Top.bean PROVE OnPath(b)'
  <2>1. PICK i \in 1..Len(stack) : stack[i].bean = b
    BY <1>1, <1>7 DEF OnPath
  <2>2. i - 1 \in 1..Len(stack) - 1 /\ (i - 1) + 1 = i
    BY <1>1, <1>7, <2>1
  <2> QED
    BY <1>1, <2>1, <2>2 DEF OnPath
<1> QED
  BY <1>5, <1>6, <1>7

\* A step that leaves the beans of the path as they are.
LEMMA SameCalls ==
    ASSUME WiringTypeOK, WiringTypeOK', Len(stack') = Len(stack),
           \A i \in 1..Len(stack) : stack'[i].bean = stack[i].bean,
           UNCHANGED program, known \subseteq known',
           \A b \in Bean : deps[b] \subseteq deps'[b]
    PROVE  /\ CalledBelow => CalledBelow'
           /\ \A b : OnPath(b)' <=> OnPath(b)
<1>1. /\ Len(stack) \in Nat
      /\ DOMAIN stack = 1..Len(stack) /\ DOMAIN stack' = 1..Len(stack)
  BY DEF WiringTypeOK
<1>2. \A b : Needs(b)' = Needs(b)
  BY NeedsKept
<1>3. \A i \in 1..Len(stack) : stack[i].bean \in Bean
  <2> SUFFICES ASSUME NEW i \in 1..Len(stack) PROVE stack[i].bean \in Bean
    OBVIOUS
  <2>1. stack[i] \in Frame
    BY <1>1, SeqElement DEF WiringTypeOK
  <2> QED
    BY <2>1 DEF Frame
<1>4. ASSUME CalledBelow, NEW i \in 1..Len(stack), i > 1
      PROVE  stack'[i - 1].bean \in deps'[stack'[i].bean] \cap known'
  <2>1. i - 1 \in 1..Len(stack)
    BY <1>1, <1>4
  <2> QED
    BY <1>3, <1>4, <2>1 DEF CalledBelow
<1>5. ASSUME CalledBelow, NEW i \in 1..Len(stack), NEW k \in 1..Len(stack), i < k
      PROVE  stack'[i].bean \in Needs(stack'[k].bean)
  <2>1. stack'[i].bean = stack[i].bean /\ stack'[k].bean = stack[k].bean
    OBVIOUS
  <2> QED
    BY <1>5, <2>1 DEF CalledBelow
<1>6. CalledBelow => CalledBelow'
  <2> SUFFICES ASSUME CalledBelow PROVE CalledBelow'
    OBVIOUS
  <2> QED
    BY <1>2, <1>4, <1>5 DEF CalledBelow
<1>7. \A b : OnPath(b)' <=> OnPath(b)
  BY <1>1 DEF OnPath
<1> QED
  BY <1>6, <1>7

\* A step that settles more and wires nothing.
LEMMA WiredSettled ==
    ASSUME UNCHANGED program, WiredMet,
           \A x \in Bean : Settled(x) \subseteq Settled(x)',
           \A b \in Bean : status'[b] = "wired" => status[b] = "wired"
    PROVE  WiredMet'
<1> SUFFICES ASSUME NEW x \in Bean, status'[x] = "wired"
             PROVE  EagerTargets(x)' \subseteq Settled(x)'
  BY DEF WiredMet
<1>1. EagerTargets(x)' = EagerTargets(x)
  BY NeedsKept
<1>2. EagerTargets(x) \subseteq Settled(x)
  BY DEF WiredMet
<1> QED
  BY <1>1, <1>2

\* A call of wireBean(b) by the function whose frames are rest, on the beans of
\* the path; the innermost one has b among its targets.
LEMMA MetCalled ==
    ASSUME WiringTypeOK, WiringTypeOK', OrderInv, MetParts, ~err,
           NEW b \in Bean, NEW rest \in Seq(Frame),
           Len(rest) = Len(stack), \A i \in 1..Len(stack) : rest[i].bean = stack[i].bean,
           Waits(rest, b), WireBean(b, rest), UNCHANGED <<program, finish>>,
           stack # << >> => b \in EagerTargets(stack[1].bean)
    PROVE  MetParts'
<1>1. /\ Len(stack) \in Nat /\ DOMAIN stack = 1..Len(stack) /\ DOMAIN rest = 1..Len(stack)
      /\ \A i \in 1..Len(stack) : stack[i].bean \in Bean
  <2>1. ASSUME NEW i \in 1..Len(stack) PROVE stack[i].bean \in Bean
    <3>1. stack[i] \in Frame
      BY SeqElement DEF WiringTypeOK
    <3> QED
      BY <3>1 DEF Frame
  <2> QED
    BY <2>1 DEF WiringTypeOK
<1>2. WiredIsFinished /\ UnderWay /\ KnownIsMet /\ CalledBelow /\ PathMet /\ WiredMet
  BY DEF MetParts
<1>3. rest # << >> => stack # << >> /\ rest[1].bean = stack[1].bean /\ 1 \in 1..Len(stack)
  BY <1>1
<1>n. \A c : Needs(c)' = Needs(c)
  BY NeedsKept
<1>4. CASE status[b] = "creating"
  <2>1. err' /\ stack' = rest /\ UNCHANGED <<status, deps, known>>
    BY <1>4 DEF WireBean
  <2>2. CalledBelow'
    BY <1>2, <2>1, SameCalls
  <2>3. WiredMet'
    BY <1>2, <2>1, SettledGrows, WiredSettled
  <2> QED
    BY <1>2, <2>1, <2>2, <2>3 DEF MetParts, WiredIsFinished, UnderWay, KnownIsMet, PathMet
<1>5. CASE status[b] # "creating" /\ OnPath(b)
  <2>1. stack' = rest /\ UNCHANGED <<status, deps, known, err>>
    BY <1>5 DEF WireBean
  <2>2. PICK k \in 1..Len(stack) : stack[k].bean = b
    BY <1>1, <1>5 DEF OnPath
  <2>3. stack # << >> /\ 1 \in 1..Len(stack) /\ (k = 1 \/ 1 < k)
    BY <1>1, <2>2
  <2>4. stack[1].bean \in Needs(b)
    BY <1>1, <1>2, <2>2, <2>3, NeedsDirect DEF CalledBelow
  <2>5. \A x \in Bean : Settled(x) \subseteq Settled(x)'
    BY <2>1, SettledGrows
  <2>6. rest # << >> => b \in Settled(rest[1].bean)'
    BY <1>3, <1>n, <2>4 DEF Settled
  <2>7. PathMet'
    BY <2>1, <2>5, <2>6, Resumes
  <2>8. CalledBelow' /\ \A c : OnPath(c)' <=> OnPath(c)
    BY <1>2, <2>1, SameCalls
  <2>9. WiredMet'
    BY <1>2, <2>1, <2>5, WiredSettled
  <2> QED
    BY <1>2, <2>1, <2>7, <2>8, <2>9 DEF MetParts, WiredIsFinished, UnderWay, KnownIsMet
<1>6. CASE status[b] # "creating" /\ ~OnPath(b)
  <2>1. /\ deps' = IF rest = << >> THEN deps
                   ELSE [deps EXCEPT ![Head(rest).bean] = @ \cup {b}]
        /\ known' = known \cup {b} /\ err' = err
        /\ \/ status[b] \in {"created", "wired"} /\ stack' = rest /\ status' = status
           \/ /\ status[b] \notin {"created", "wired"}
              /\ status' = [status EXCEPT ![b] = "creating"]
              /\ stack' = << [bean |-> b, stage |-> "depends", point |-> 1, cand |-> 1] >> \o rest
    BY <1>6 DEF WireBean
  <2>2. rest # << >> => deps' = [deps EXCEPT ![stack[1].bean] = @ \cup {b}]
    <3>1. rest # << >> => Head(rest) = rest[1]
      OBVIOUS
    <3> QED
      BY <1>3, <2>1, <3>1
  <2>3. /\ \A x \in Bean : deps[x] \subseteq deps'[x]
        /\ rest # << >> => b \in deps'[stack[1].bean]
    BY <1>1, <1>3, <2>1, <2>2 DEF WiringTypeOK
  <2>4. status[b] # "created"
    BY <1>2, <1>6 DEF UnderWay
  <2>5. CASE status[b] = "wired"
    <3>1. stack' = rest /\ status' = status
      BY <2>1, <2>5
    <3>2. \A x \in Bean : Settled(x) \subseteq Settled(x)'
      BY <2>1, <2>3, <3>1, SettledGrows
    <3>3. rest # << >> => b \in Settled(rest[1].bean)'
      BY <1>3, <2>1, <2>3, <2>5, <3>1 DEF Settled
    <3>4. PathMet'
      BY <3>1, <3>2, <3>3, Resumes
    <3>5. CalledBelow' /\ \A c : OnPath(c)' <=> OnPath(c)
      BY <1>2, <2>1, <2>3, <3>1, SameCalls
    <3>6. WiredMet'
      BY <1>2, <3>1, <3>2, WiredSettled
    <3> QED
      BY <1>2, <2>1, <2>5, <3>1, <3>4, <3>5, <3>6
         DEF MetParts, WiredIsFinished, UnderWay, KnownIsMet
  <2>6. CASE status[b] \notin {"created", "wired"}
    <3>0. PICK f \in Frame :
             f = [bean |-> b, stage |-> "depends", point |-> 1, cand |-> 1]
      <4>1. [bean |-> b, stage |-> "depends", point |-> 1, cand |-> 1] \in Frame
        BY DEF Frame
      <4> QED
        BY <4>1
    <3>1. status' = [status EXCEPT ![b] = "creating"] /\ stack' = << f >> \o rest
      BY <2>1, <2>6, <3>0
    <3>2. /\ status'[b] = "creating"
          /\ \A c \in Bean : c # b => status'[c] = status[c]
      BY <3>1 DEF WiringTypeOK
    <3>3. \A x \in Bean : Settled(x) \subseteq Settled(x)'
      BY <2>1, <2>3, <2>6, <3>2, SettledGrows
    <3>4. PathMet'
      BY <3>0, <3>1, <3>3, Enters DEF WiringTypeOK
    <3>5. WiredMet'
      BY <1>2, <3>2, <3>3, WiredSettled
    <3>6. /\ Len(stack') = Len(stack) + 1 /\ stack'[1].bean = b
          /\ \A i \in 1..Len(stack) : stack'[i + 1].bean = stack[i].bean
      BY <3>0, <3>1, PushedType
    <3>7. ASSUME NEW i \in 1..Len(stack) + 1
          PROVE  \/ i = 1
                 \/ /\ i - 1 \in 1..Len(stack) /\ (i - 1) + 1 = i
                    /\ stack'[i].bean = stack[i - 1].bean
      <4>1. i # 1 => i - 1 \in 1..Len(stack) /\ (i - 1) + 1 = i
        BY <1>1
      <4> QED
        BY <3>6, <4>1
    <3>8. ASSUME NEW i \in 1..Len(stack) + 1, i > 1
          PROVE  stack'[i - 1].bean \in deps'[stack'[i].bean] \cap known'
      <4>1. i - 1 \in 1..Len(stack) /\ stack'[i].bean = stack[i - 1].bean
        BY <3>7, <3>8
      <4>2. CASE i - 1 = 1
        <5>1. rest # << >>
          BY <1>1, <4>1
        <5> QED
          BY <2>1, <2>3, <3>6, <4>1, <4>2, <5>1
      <4>3. CASE i - 1 # 1
        <5>1. (i - 1) - 1 \in 1..Len(stack) /\ ((i - 1) - 1) + 1 = i - 1 /\ i - 1 > 1
          BY <1>1, <4>1, <4>3
        <5>2. stack'[i - 1].bean = stack[(i - 1) - 1].bean
          BY <3>6, <5>1
        <5> QED
          BY <1>1, <1>2, <2>1, <2>3, <4>1, <5>1, <5>2 DEF CalledBelow
      <4> QED
        BY <4>2, <4>3
    <3>9. ASSUME NEW i \in 1..Len(stack) + 1, NEW k \in 1..Len(stack) + 1, i < k
          PROVE  stack'[i].bean \in Needs(stack'[k].bean)
      <4>1. k - 1 \in 1..Len(stack) /\ stack'[k].bean = stack[k - 1].bean
        BY <1>1, <3>7, <3>9
      <4>2. CASE i = 1
        <5>1. stack # << >> /\ 1 \in 1..Len(stack) /\ (k - 1 = 1 \/ 1 < k - 1)
          BY <1>1, <4>1
        <5>2. b \in EagerTargets(stack[1].bean)
          BY <5>1
        <5>3. CASE k - 1 = 1
          BY <3>6, <4>1, <4>2, <5>2, <5>3, NeedsDirect
        <5>4. CASE 1 < k - 1
          <6>1. stack[1].bean \in Needs(stack[k - 1].bean)
            BY <1>2, <4>1, <5>1, <5>4 DEF CalledBelow
          <6> QED
            BY <3>6, <4>1, <4>2, <5>2, <6>1, NeedsStep
        <5> QED
          BY <5>1, <5>3, <5>4
      <4>3. CASE i # 1
        <5>1. i - 1 \in 1..Len(stack) /\ stack'[i].bean = stack[i - 1].bean /\ i - 1 < k - 1
          BY <1>1, <3>7, <3>9, <4>3
        <5> QED
          BY <1>2, <4>1, <5>1 DEF CalledBelow
      <4> QED
        BY <4>2, <4>3
    <3>10. CalledBelow'
      BY <1>n, <3>6, <3>8, <3>9 DEF CalledBelow
    <3>11. \A c : OnPath(c) \/ c = b => OnPath(c)'
      <4>0. DOMAIN stack' = 1..Len(stack) + 1
        BY <3>6 DEF WiringTypeOK
      <4>1. ASSUME NEW c, OnPath(c) PROVE OnPath(c)'
        <5>1. PICK i \in 1..Len(stack) : stack[i].bean = c
          BY <1>1, <4>1 DEF OnPath
        <5>2. i + 1 \in 1..Len(stack) + 1 /\ stack'[i + 1].bean = c
          BY <1>1, <3>6, <5>1
        <5> QED
          BY <4>0, <5>2 DEF OnPath
      <4>2. OnPath(b)'
        <5>1. 1 \in 1..Len(stack) + 1
          BY <1>1
        <5> QED
          BY <3>6, <4>0, <5>1 DEF OnPath
      <4> QED
        BY <4>1, <4>2
    <3>12. UnderWay'
      BY <1>2, <3>2, <3>11 DEF UnderWay
    <3>13. KnownIsMet'
      BY <1>2, <2>1, <3>2 DEF KnownIsMet, WiringTypeOK
    <3>14. WiredIsFinished'
      BY <1>2, <3>2 DEF WiredIsFinished
    <3> QED
      BY <3>4, <3>5, <3>10, <3>12, <3>13, <3>14 DEF MetParts
  <2> QED
    BY <2>4, <2>5, <2>6
<1> QED
  BY <1>4, <1>5, <1>6


\* The innermost frame moves on to f, past what is met; its bean may count as
\* constructed now.
LEMMA MetMoved ==
    ASSUME WiringTypeOK, WiringTypeOK', MetParts, stack # << >>, ~err,
           NEW f \in Frame, f.bean = Top.bean, stack' = Replaced(f),
           UNCHANGED <<program, deps, known, finish, err>>,
           \/ status' = status
           \/ status[Top.bean] # "wired" /\ status' = [status EXCEPT ![Top.bean] = "created"],
           Met(Plan(f.bean), f, Settled(f.bean))
    PROVE  MetParts'
<1>1. WiredIsFinished /\ UnderWay /\ KnownIsMet /\ CalledBelow /\ PathMet /\ WiredMet
  BY DEF MetParts
<1>2. Top.bean \in Bean /\ OnPath(Top.bean)
  <2>1. Top = stack[1] /\ 1 \in DOMAIN stack
    BY TopType DEF WiringTypeOK
  <2> QED
    BY <2>1, HereType DEF OnPath
<1>3. /\ \A b \in Bean : status'[b] = "wired" <=> status[b] = "wired"
      /\ \A b \in Bean : b # Top.bean => status'[b] = status[b]
      /\ status'[Top.bean] \in {status[Top.bean], "created"}
  BY <1>2 DEF WiringTypeOK
<1>4. \A x \in Bean : Settled(x) \subseteq Settled(x)'
  BY <1>3, SettledGrows
<1>5. Met(Plan(f.bean), f, Settled(f.bean)')
  BY <1>2, <1>4, MetMore
<1>6. PathMet'
  BY <1>1, <1>4, <1>5, Advances
<1>7. CalledBelow' /\ \A b : OnPath(b)' <=> OnPath(b)
  BY <1>1, ReplacedBeans, SameCalls
<1>8. WiredMet'
  BY <1>1, <1>3, <1>4, WiredSettled
<1>9. UnderWay'
  BY <1>1, <1>2, <1>3, <1>7 DEF UnderWay
<1>10. KnownIsMet' /\ WiredIsFinished'
  BY <1>1, <1>3 DEF KnownIsMet, WiredIsFinished, WiringTypeOK
<1> QED
  BY <1>6, <1>7, <1>8, <1>9, <1>10 DEF MetParts

\* The innermost frame goes with an error.
LEMMA MetDropped ==
    ASSUME WiringTypeOK, WiringTypeOK', MetParts, stack # << >>, stack' = Tail(stack), err',
           UNCHANGED <<program, status, deps, known>>, Finish(Top.bean)
    PROVE  MetParts'
<1>1. WiredIsFinished /\ UnderWay /\ KnownIsMet /\ CalledBelow /\ PathMet /\ WiredMet
  BY DEF MetParts
<1>2. CalledBelow'
  BY <1>1, TailCalled
<1>3. WiredMet'
  BY <1>1, SettledGrows, WiredSettled
<1>4. WiredIsFinished'
  BY <1>1, HereType DEF WiredIsFinished, Finish, WiringTypeOK
<1> QED
  BY <1>1, <1>2, <1>3, <1>4 DEF MetParts, UnderWay, KnownIsMet, PathMet

\* A bean is initialized: all its stages are met.
LEMMA MetWired ==
    ASSUME WiringTypeOK, WiringTypeOK', MetParts, ~err, StageDone("fields"),
           stack' = Tail(stack), Finish(Top.bean),
           status' = [status EXCEPT ![Top.bean] = "wired"],
           UNCHANGED <<program, deps, known, err>>
    PROVE  MetParts'
<1>1. WiredIsFinished /\ UnderWay /\ KnownIsMet /\ CalledBelow /\ PathMet /\ WiredMet
  BY DEF MetParts
<1>2. stack # << >> /\ Top.stage = "fields" /\ ~HasPoint
  BY DEF StageDone, InFrame
<1>3. PICK t \in Bean : t = Top.bean
  BY <1>2, HereType
<1>4. status'[t] = "wired" /\ \A b \in Bean : b # t => status'[b] = status[b]
  BY <1>3 DEF WiringTypeOK
<1>5. \A x \in Bean : Settled(x) \subseteq Settled(x)'
  BY <1>4, SettledGrows
<1>6. EagerTargets(t) \subseteq Settled(t)
  <2>1. Candidates(Plan(t)["fields"]) \subseteq Settled(t)
    BY <1>1, <1>2, <1>3, StageMet
  <2>2. \A stage \in {"depends", "ctor"} : Candidates(Plan(t)[stage]) \subseteq Settled(t)
    BY <1>1, <1>2, <1>3, TopMet DEF Met, Earlier
  <2>3. program \in ProgramType
    BY DEF WiringTypeOK
  <2> QED
    BY <2>1, <2>2, <2>3, TargetsType DEF Stage
<1>7. WiredMet'
  <2> SUFFICES ASSUME NEW x \in Bean, status'[x] = "wired"
               PROVE  EagerTargets(x)' \subseteq Settled(x)'
    BY DEF WiredMet
  <2>1. EagerTargets(x)' = EagerTargets(x)
    BY NeedsKept
  <2>2. EagerTargets(x) \subseteq Settled(x)
    BY <1>1, <1>4, <1>6 DEF WiredMet
  <2> QED
    BY <1>5, <2>1, <2>2
<1>8. /\ CalledBelow'
      /\ stack' # << >> => t \in deps[stack'[1].bean] \cap known
      /\ \A b : OnPath(b) => b = t \/ OnPath(b)'
  BY <1>1, <1>2, <1>3, TailCalled
<1>9. PathMet'
  <2>1. Waits(Tail(stack), t)
    BY <1>1, <1>2, <1>3, TailMet
  <2>2. Tail(stack) \in Seq(Frame)
    BY <1>2, TopType DEF WiringTypeOK
  <2>3. PICK rest \in Seq(Frame) : rest = Tail(stack)
    BY <2>2
  <2>4. rest # << >> => t \in Settled(rest[1].bean)'
    BY <1>3, <1>4, <1>8, <2>3 DEF Settled
  <2> QED
    BY <1>5, <2>1, <2>3, <2>4, Resumes
<1>10. UnderWay'
  BY <1>1, <1>4, <1>8 DEF UnderWay
<1>11. KnownIsMet'
  BY <1>1, <1>4 DEF KnownIsMet, WiringTypeOK
<1>12. WiredIsFinished'
  BY <1>1, <1>3, <1>4 DEF WiredIsFinished, Finish, WiringTypeOK
<1> QED
  BY <1>7, <1>8, <1>9, <1>10, <1>11, <1>12 DEF MetParts

\* The innermost frame wires its next candidate.
LEMMA CandidateMet ==
    ASSUME WiringTypeOK, MetParts, WireCandidate
    PROVE  \E b \in Bean, rest \in Seq(Frame) :
              /\ Len(rest) = Len(stack)
              /\ \A i \in 1..Len(stack) : rest[i].bean = stack[i].bean
              /\ Waits(rest, b) /\ WireBean(b, rest)
              /\ b \in EagerTargets(stack[1].bean)
<1>1. /\ stack # << >> /\ ~err /\ HasPoint /\ ~Here.lazy
      /\ Top.cand \in DOMAIN Here.cands /\ PathMet
  BY DEF WireCandidate, InFrame, MetParts
<1>2. PICK b \in Bean : b = Here.cands[Top.cand]
  BY <1>1, HereType
<1>3. PICK f \in Frame : f = [Top EXCEPT !.cand = @ + 1]
  BY <1>1, MovedType
<1>4. /\ f.bean = Top.bean /\ f.stage = Top.stage /\ f.point = Top.point
      /\ f.cand = Top.cand + 1
  BY <1>1, <1>3, HereType DEF Frame
<1>5. PICK rest \in Seq(Frame) : rest = Replaced(f)
  BY <1>1, <1>4, ReplacedBeans
<1>6. /\ Len(rest) = Len(stack) /\ rest[1] = f /\ stack \in Seq(Frame)
      /\ \A i \in 2..Len(stack) : rest[i] = stack[i]
      /\ \A i \in 1..Len(stack) : rest[i].bean = stack[i].bean
  BY <1>1, <1>4, <1>5, ReplacedType, ReplacedBeans DEF WiringTypeOK
<1>7. WireBean(b, rest)
  BY <1>2, <1>3, <1>5 DEF WireCandidate, Replaced
<1>8. PICK ps \in Seq(Point) : ps = Points(Top.bean, Top.stage) /\ ps = Plan(Top.bean)[Top.stage]
  BY <1>1, TopMet
<1>9. /\ Here = ps[Top.point] /\ Top.point \in DOMAIN ps
      /\ Here.cands \in Seq(Bean) /\ Top.cand \in Nat \ {0} /\ Top.stage \in Stage
  BY <1>1, <1>8, HereType DEF Here, HasPoint, Point, Frame, Stage
<1>10. Met(Plan(f.bean), f, Settled(f.bean) \cup {b})
  <2>1. Met(Plan(Top.bean), Top, Settled(Top.bean))
    BY <1>1, TopMet
  <2>2. ASSUME NEW k \in DOMAIN Here.cands, k < Top.cand + 1
        PROVE  Here.cands[k] \in Settled(Top.bean) \cup {b}
    <3>1. k \in Nat
      BY <1>9, <2>2
    <3>2. k < Top.cand \/ k = Top.cand
      BY <1>9, <2>2, <3>1
    <3> QED
      BY <1>2, <1>8, <1>9, <2>1, <3>2 DEF Met, Wires
  <2>3. Wires(ps, f, Settled(Top.bean) \cup {b})
    BY <1>1, <1>4, <1>9, <2>2 DEF Wires
  <2> QED
    BY <1>4, <1>8, <2>1, <2>3 DEF Met
<1>11. ASSUME NEW j \in 1..Len(stack), j # 1
       PROVE  Met(Plan(rest[j].bean), rest[j],
                  Settled(rest[j].bean) \cup {rest[j - 1].bean})
  <2>1. j \in 2..Len(stack) /\ j - 1 \in 1..Len(stack)
    BY <1>6, <1>11
  <2>2. Served(j) = Settled(rest[j].bean) \cup {rest[j - 1].bean} /\ rest[j] = stack[j]
    BY <1>6, <1>11, <2>1 DEF Served
  <2> QED
    BY <1>1, <2>2 DEF PathMet
<1>12. Waits(rest, b)
  <2> SUFFICES ASSUME NEW j \in 1..Len(rest)
               PROVE  Met(Plan(rest[j].bean), rest[j],
                          Settled(rest[j].bean)
                             \cup (IF j = 1 THEN {b} ELSE {rest[j - 1].bean}))
    BY DEF Waits
  <2>1. CASE j = 1
    BY <1>6, <1>10, <2>1
  <2>2. CASE j # 1
    BY <1>6, <1>11, <2>2
  <2> QED
    BY <2>1, <2>2
<1>13. b \in EagerTargets(stack[1].bean)
  <2>1. b \in ToSet(Here.cands)
    BY <1>1, <1>2 DEF ToSet
  <2>2. b \in Candidates(Plan(Top.bean)[Top.stage])
    BY <1>1, <1>8, <1>9, <2>1 DEF Candidates
  <2>3. Top = stack[1] /\ Top.bean \in Bean /\ program \in ProgramType
    BY <1>1, TopMet, HereType DEF WiringTypeOK
  <2> QED
    BY <1>9, <2>2, <2>3, TargetsType
<1> QED
  BY <1>6, <1>7, <1>12, <1>13

\* The innermost frame is past point p, which it may leave: it is put off, or
\* all its candidates are met.
LEMMA PointMet ==
    ASSUME WiringTypeOK, stack # << >>, PathMet, ~err, HasPoint,
           Here.lazy \/ Top.cand \notin DOMAIN Here.cands,
           NEW f \in Frame, f.bean = Top.bean, f.stage = Top.stage,
           f.point = Top.point + 1, f.cand = 1
    PROVE  Met(Plan(f.bean), f, Settled(f.bean))
<1>1. PICK ps \in Seq(Point) : ps = Points(Top.bean, Top.stage) /\ ps = Plan(Top.bean)[Top.stage]
  BY TopMet
<1>2. Met(Plan(Top.bean), Top, Settled(Top.bean))
  BY TopMet
<1>3. /\ Here = ps[Top.point] /\ Top.point \in DOMAIN ps
      /\ Here.cands \in Seq(Bean) /\ Top.cand \in Nat \ {0} /\ Top.point \in Nat \ {0}
  BY <1>1, HereType DEF Here, HasPoint, Point, Frame
<1>4. ~Here.lazy => ToSet(Here.cands) \subseteq Settled(Top.bean)
  <2> SUFFICES ASSUME ~Here.lazy, NEW k \in DOMAIN Here.cands
               PROVE  Here.cands[k] \in Settled(Top.bean)
    BY DEF ToSet
  <2>1. k < Top.cand
    BY <1>3
  <2> QED
    BY <1>1, <1>2, <1>3, <2>1 DEF Met, Wires
<1>5. ASSUME NEW p \in DOMAIN ps, p < Top.point + 1, ~ps[p].lazy
      PROVE  ToSet(ps[p].cands) \subseteq Settled(Top.bean)
  <2>1. p < Top.point \/ p = Top.point
    BY <1>3, <1>5
  <2> QED
    BY <1>1, <1>2, <1>3, <1>4, <1>5, <2>1 DEF Met
<1>6. Wires(ps, f, Settled(Top.bean))
  <2>1. program \in ProgramType
    BY DEF WiringTypeOK
  <2> QED
    BY <1>1, <2>1, FirstCandidate
<1> QED
  BY <1>1, <1>2, <1>5, <1>6 DEF Met


\* MetInv is inductive.
LEMMA MetStep ==
    ASSUME WiringTypeOK, WiringTypeOK', OrderInv, MetInv, [Next]_vars
    PROVE  MetInv'
<1>a. program' = program
  BY DEF Next, Step, Terminated, vars, WireRoot, DeferField, RefusePoint, WireCandidate,
         SetPoint, DependsDone, Construct, ConstructFails, ConstructsNil, Initialize,
         ReturnError, WiringFails, StartLazy, SetLazyField, SortDestroyers, DestroyNext,
         Closed
<1> SUFFICES ASSUME ~program.force
             PROVE  MetParts'
  BY <1>a DEF MetInv
<1>b. MetParts
  BY DEF MetInv
\* A step that leaves the path, or ends with an error.
<1>c. ASSUME UNCHANGED <<status, stack, deps, known, finish>>, err' = err \/ err'
      PROVE  MetParts'
  <2>1. WiredIsFinished /\ UnderWay /\ KnownIsMet /\ CalledBelow /\ PathMet /\ WiredMet
    BY <1>b DEF MetParts
  <2>2. /\ \A b : Plan(b)' = Plan(b)
        /\ \A x : Settled(x)' = Settled(x)
        /\ \A i : Served(i)' = Served(i)
        /\ \A b : OnPath(b)' = OnPath(b)
    BY <1>a, <1>c, NeedsKept DEF Settled, Served, OnPath
  <2>3. PathMet'
    BY <1>c, <2>1, <2>2 DEF PathMet
  <2>4. CalledBelow' /\ WiredMet'
    BY <1>a, <1>c, <2>1, <2>2, NeedsKept DEF CalledBelow, WiredMet
  <2>5. UnderWay' /\ KnownIsMet' /\ WiredIsFinished'
    BY <1>c, <2>1, <2>2 DEF UnderWay, KnownIsMet, WiredIsFinished
  <2> QED
    BY <2>3, <2>4, <2>5 DEF MetParts
<1>1. CASE WireRoot
  <2>1. program.roots[pos] \in Bean
    <3>1. program.roots \in Seq(Bean) /\ pos \in DOMAIN program.roots
      BY <1>1 DEF WireRoot, WiringTypeOK, ProgramType
    <3> QED
      BY <3>1
  <2>2. << >> \in Seq(Frame) /\ Len(<< >>) = 0 /\ 1..0 = {}
    OBVIOUS
  <2>3. /\ WireBean(program.roots[pos], << >>) /\ UNCHANGED <<program, finish>>
        /\ stack = << >> /\ ~err
    BY <1>1 DEF WireRoot
  <2>4. Waits(<< >>, program.roots[pos])
    BY <2>2 DEF Waits
  <2> QED
    BY <1>b, <2>1, <2>2, <2>3, <2>4, MetCalled
<1>2. CASE DeferField
  <2>1. /\ stack # << >> /\ ~err /\ HasPoint /\ Here.lazy
        /\ stack' = Replaced([Top EXCEPT !.point = @ + 1])
        /\ UNCHANGED <<program, status, err, deps, known, finish>>
    BY <1>2 DEF DeferField, InFrame, Replaced
  <2>2. PICK f \in Frame : f = [Top EXCEPT !.point = @ + 1]
    BY <2>1, MovedType
  <2>3. /\ f.bean = Top.bean /\ f.stage = Top.stage /\ f.point = Top.point + 1
        /\ f.cand = Top.cand
    BY <2>1, <2>2, HereType DEF Frame
  <2>4. PathMet
    BY <1>b DEF MetParts
  <2>5. f.cand = 1
    <3>1. Met(Plan(Top.bean), Top, Settled(Top.bean))
      BY <2>1, <2>4, TopMet
    <3>2. Plan(Top.bean)[Top.stage] = Points(Top.bean, Top.stage)
      BY <2>1, <2>4, TopMet
    <3> QED
      BY <2>1, <2>3, <3>1, <3>2 DEF Met, Wires, HasPoint, Here
  <2>6. Met(Plan(f.bean), f, Settled(f.bean))
    BY <2>1, <2>3, <2>4, <2>5, PointMet
  <2> QED
    BY <1>b, <2>1, <2>2, <2>3, <2>6, MetMoved
<1>3. CASE RefusePoint
  BY <1>3, <1>c DEF RefusePoint
<1>4. CASE WireCandidate
  <2>1. PICK b \in Bean, rest \in Seq(Frame) :
              /\ Len(rest) = Len(stack)
              /\ \A i \in 1..Len(stack) : rest[i].bean = stack[i].bean
              /\ Waits(rest, b) /\ WireBean(b, rest)
              /\ b \in EagerTargets(stack[1].bean)
    BY <1>4, <1>b, CandidateMet
  <2>2. ~err /\ UNCHANGED <<program, finish>>
    BY <1>4 DEF WireCandidate, InFrame
  <2> QED
    BY <1>b, <2>1, <2>2, MetCalled
<1>5. CASE SetPoint
  <2>1. /\ stack # << >> /\ ~err /\ HasPoint /\ Top.cand \notin DOMAIN Here.cands
        /\ stack' = Replaced([Top EXCEPT !.point = @ + 1, !.cand = 1])
        /\ UNCHANGED <<program, status, err, deps, known, finish>>
    BY <1>5 DEF SetPoint, InFrame, Replaced
  <2>2. PICK f \in Frame : f = [Top EXCEPT !.point = @ + 1, !.cand = 1]
    BY <2>1, MovedType
  <2>3. /\ f.bean = Top.bean /\ f.stage = Top.stage /\ f.point = Top.point + 1
        /\ f.cand = 1
    BY <2>1, <2>2, HereType DEF Frame
  <2>4. PathMet
    BY <1>b DEF MetParts
  <2>5. Met(Plan(f.bean), f, Settled(f.bean))
    BY <2>1, <2>3, <2>4, PointMet
  <2> QED
    BY <1>b, <2>1, <2>2, <2>3, <2>5, MetMoved
\* The bean's next stage.
<1>6. ASSUME NEW stage \in {"ctor", "fields"}, InFrame, ~HasPoint, NextStage(stage),
             Earlier(stage) = Earlier(Top.stage) \cup {Top.stage},
             UNCHANGED <<program, deps, known, finish, err>>,
             \/ status' = status
             \/ /\ status[Top.bean] # "wired"
                /\ status' = [status EXCEPT ![Top.bean] = "created"]
      PROVE  MetParts'
  <2>1. stack # << >> /\ ~err /\ PathMet
    BY <1>6, <1>b DEF InFrame, MetParts
  <2>2. PICK f \in Frame : f = [Top EXCEPT !.stage = stage, !.point = 1, !.cand = 1]
    BY <1>6, <2>1, MovedType DEF Stage
  <2>3. f.bean = Top.bean /\ f.stage = stage /\ f.point = 1 /\ f.cand = 1
    BY <2>1, <2>2, HereType DEF Frame
  <2>4. stack' = Replaced(f)
    BY <1>6, <2>2 DEF NextStage, Replaced
  <2>5. Met(Plan(f.bean), f, Settled(f.bean))
    <3>1. \A s \in Earlier(stage) : Candidates(Plan(Top.bean)[s]) \subseteq Settled(Top.bean)
      BY <1>6, <2>1, StageMet, TopMet DEF Met
    <3>2. program \in ProgramType
      BY DEF WiringTypeOK
    <3>3. /\ Plan(f.bean)[f.stage] = Points(f.bean, f.stage)
          /\ Points(f.bean, f.stage) \in Seq(Point)
      BY <3>2, PlanType
    <3>4. \A p \in DOMAIN Plan(f.bean)[f.stage] : ~(p < f.point)
      BY <2>3, <3>3
    <3>5. Wires(Plan(f.bean)[f.stage], f, Settled(f.bean))
      BY <2>3, <3>2, <3>3, FirstCandidate
    <3> QED
      BY <2>3, <3>1, <3>4, <3>5 DEF Met
  <2> QED
    BY <1>6, <1>b, <2>1, <2>2, <2>3, <2>4, <2>5, MetMoved
<1>7. CASE DependsDone
  <2>1. /\ InFrame /\ ~HasPoint /\ Top.stage = "depends" /\ NextStage("ctor")
        /\ UNCHANGED <<program, deps, known, finish, err, status>>
    BY <1>7 DEF DependsDone, StageDone
  <2>2. Earlier("ctor") = Earlier("depends") \cup {"depends"}
    BY DEF Earlier
  <2> QED
    BY <1>6, <2>1, <2>2
<1>8. CASE Construct
  <2>1. /\ InFrame /\ ~HasPoint /\ Top.stage = "ctor" /\ NextStage("fields")
        /\ status' = [status EXCEPT ![Top.bean] = "created"]
        /\ UNCHANGED <<program, deps, known, finish, err>>
    BY <1>8 DEF Construct, StageDone
  <2>2. Earlier("fields") = Earlier("ctor") \cup {"ctor"}
    BY DEF Earlier
  <2>3. finish[Top.bean] = 0 /\ Top.bean \in Bean
    <3>1. stack # << >> /\ Top = stack[1] /\ 1 \in 1..Len(stack)
      BY <2>1, TopType DEF InFrame, WiringTypeOK
    <3> QED
      BY <3>1, HereType DEF OrderInv, OncePerBean
  <2>4. status[Top.bean] # "wired"
    BY <1>b, <2>3 DEF MetParts, WiredIsFinished
  <2> QED
    BY <1>6, <2>1, <2>2, <2>4
<1>9. CASE ConstructFails
  BY <1>9, <1>c DEF ConstructFails
<1>10. CASE ConstructsNil
  BY <1>10, <1>b, MetDropped DEF ConstructsNil, StageDone, InFrame
<1>11. CASE Initialize
  <2>1. /\ StageDone("fields") /\ stack # << >> /\ ~err /\ stack' = Tail(stack)
        /\ Finish(Top.bean) /\ UNCHANGED <<program, deps, known>>
        /\ \/ err' /\ UNCHANGED status
           \/ status' = [status EXCEPT ![Top.bean] = "wired"] /\ UNCHANGED err
    BY <1>11 DEF Initialize, StageDone, InFrame
  <2>2. CASE err' /\ UNCHANGED status
    BY <1>b, <2>1, <2>2, MetDropped
  <2>3. CASE status' = [status EXCEPT ![Top.bean] = "wired"] /\ UNCHANGED err
    BY <1>b, <2>1, <2>3, MetWired
  <2> QED
    BY <2>1, <2>2, <2>3
<1>12. CASE ReturnError
  <2>1. /\ stack # << >> /\ stack' = Tail(stack) /\ err'
        /\ UNCHANGED <<program, status, deps, known>> /\ Finish(Top.bean)
    BY <1>12 DEF ReturnError
  <2> QED
    BY <1>b, <2>1, MetDropped
<1>13. CASE WiringFails
  BY <1>13, <1>c DEF WiringFails
<1>14. CASE StartLazy
  BY <1>14, <1>c DEF StartLazy
<1>15. CASE SetLazyField
  BY <1>15, <1>c DEF SetLazyField
<1>16. CASE SortDestroyers
  BY <1>16, <1>c DEF SortDestroyers
<1>17. CASE DestroyNext
  BY <1>17, <1>c DEF DestroyNext
<1>18. CASE Closed
  BY <1>18, <1>c DEF Closed
<1>19. CASE UNCHANGED vars
  BY <1>19, <1>c DEF vars
<1> QED
  BY <1>1, <1>2, <1>3, <1>4, <1>5, <1>7, <1>8, <1>9, <1>10, <1>11, <1>12, <1>13,
     <1>14, <1>15, <1>16, <1>17, <1>18, <1>19 DEF Next, Step, Terminated

\* MetInv holds from the start.
LEMMA MetStart == Init => MetInv
<1> SUFFICES ASSUME Init PROVE MetParts
  BY DEF MetInv
<1>1. stack = << >> /\ Len(stack) = 0 /\ 1..0 = {} /\ known = {}
  BY DEF Init
<1>2. \A b \in Bean : status[b] = "resolved"
  BY DEF Init
<1> QED
  BY <1>1, <1>2 DEF MetParts, WiredIsFinished, UnderWay, KnownIsMet, CalledBelow, PathMet,
                    WiredMet

\* Unless injections are nullable throughout, a bean is initialized after the
\* beans it was given, except those that need it in turn: these wait for it
\* further down the wiring path (injecting.go:577-658).
THEOREM InitializedOrder == Spec => []InitializedInOrder
<1>1. WiringTypeOK /\ WiringTypeOK' /\ OrderInv /\ [Next]_vars => OrderInv'
  BY OrderStep
<1>2. WiringTypeOK /\ WiringTypeOK' /\ OrderInv /\ MetInv /\ [Next]_vars => MetInv'
  BY MetStep
<1>3. WiringTypeOK /\ MetInv => InitializedInOrder
  <2> SUFFICES ASSUME MetInv, ~program.force, NEW x \in Bean, status[x] = "wired",
                      NEW y \in EagerTargets(x)
               PROVE  status[y] = "wired" \/ x \in Needs(y)
    BY DEF InitializedInOrder
  <2>1. y \in Settled(x)
    BY DEF MetInv, MetParts, WiredMet
  <2> QED
    BY <2>1 DEF Settled
<1> QED
  BY <1>1, <1>2, <1>3, OrderStart, MetStart, WiringTyping, PTL DEF Spec


-----------------------------------------------------------------------------
(* The order of destruction. *)

\* The sequences of the elements of a finite set hold each of them once.
LEMMA SeqsOf ==
    ASSUME NEW S, IsFiniteSet(S), NEW s \in SetToSeqs(S)
    PROVE  /\ s \in Seq(S)
           /\ \A i, j \in DOMAIN s : s[i] = s[j] => i = j
           /\ \A x \in S : \E i \in DOMAIN s : s[i] = x
<1>1. PICK n \in Nat : n = Cardinality(S)
  BY FS_CardinalityType
<1>2. s \in [1..n -> S] /\ \A i, j \in 1..n : i # j => s[i] # s[j]
  BY <1>1 DEF SetToSeqs
<1>3. s \in Injection(1..n, S)
  BY <1>2 DEF Injection, IsInjective
<1>4. IsFiniteSet(1..n) /\ Cardinality(1..n) = n
  BY FS_Interval
<1>5. s \in Surjection(1..n, S)
  BY <1>1, <1>3, <1>4, FS_Injection
<1>6. \A x \in S : \E i \in 1..n : s[i] = x
  BY <1>5 DEF Surjection
<1> QED
  BY <1>2, <1>6

\* The callbacks read from the back of a sort: a bean comes before those it
\* depends on.
LEMMA ReadFromTheBack ==
    ASSUME IsFiniteSet(known), NEW s \in Sorts, NEW d \in Callbacks,
           \A i, j \in DOMAIN d : i < j => Precedes(d[j], d[i], s),
           NEW x \in known \cap program.destroy, NEW y \in known \cap program.destroy,
           y \in deps[x], x # y
    PROVE  Precedes(x, y, d)
<1>1. IsFiniteSet(known \cap program.destroy)
  BY FS_Subset
<1>2. d \in Seq(known \cap program.destroy)
  BY <1>1, SeqsOf DEF Callbacks
<1>3. PICK i \in DOMAIN d, j \in DOMAIN d : d[i] = x /\ d[j] = y
  BY <1>1, SeqsOf DEF Callbacks
<1>4. s \in Seq(known) /\ \A p, q \in DOMAIN s : s[q] \in deps[s[p]] => q < p
  BY SeqsOf DEF Sorts
<1>5. ~Precedes(x, y, s)
  <2> SUFFICES ASSUME NEW p \in DOMAIN s, NEW q \in DOMAIN s, p < q, s[p] = x, s[q] = y
               PROVE  FALSE
    BY DEF Precedes
  <2>1. q < p
    BY <1>4
  <2> QED
    BY <1>4, <2>1
<1>6. ~(j < i)
  BY <1>3, <1>5
<1>7. i < j
  BY <1>2, <1>3, <1>6
<1> QED
  BY <1>3, <1>7 DEF Precedes

\* After wiring nothing is on the path, and no error is under way.
WiringIsOver == phase \in {"lazy", "refreshed", "closed"} => stack = << >> /\ ~err

\* The callbacks that have run and those still to run put a bean before those
\* it depends on.
CallbacksOrdered ==
    phase \in {"refreshed", "closed"} =>
        \A x, y \in known \cap program.destroy :
            y \in deps[x] => Precedes(x, y, destroyed \o destroyers)

DestroyInv ==
    /\ WiringIsOver
    /\ IsFiniteSet(known)
    /\ destroyers \in Seq(Bean)
    /\ destroyed \in Seq(Bean)
    /\ phase \in {"wiring", "lazy"} => destroyed = << >>
    /\ phase = "closed" => destroyers = << >>
    /\ CallbacksOrdered

\* DestroyInv is inductive.
LEMMA DestroyStep ==
    ASSUME WiringTypeOK, WiringTypeOK', OrderInv, DestroyInv, [Next]_vars
    PROVE  DestroyInv'
<1>a. program' = program
  BY DEF Next, Step, Terminated, vars, WireRoot, DeferField, RefusePoint, WireCandidate,
         SetPoint, DependsDone, Construct, ConstructFails, ConstructsNil, Initialize,
         ReturnError, WiringFails, StartLazy, SetLazyField, SortDestroyers, DestroyNext,
         Closed
\* wireBean is at work.
<1>b. ASSUME phase = "wiring", phase' = "wiring", UNCHANGED <<destroyers, destroyed>>,
             known' = known \/ \E b : known' = known \cup {b}
      PROVE  DestroyInv'
  <2>1. IsFiniteSet(known')
    BY <1>b, FS_AddElement DEF DestroyInv
  <2> QED
    BY <1>b, <2>1 DEF DestroyInv, WiringIsOver, CallbacksOrdered
<1>c. ASSUME NEW b, NEW rest, WireBean(b, rest)
      PROVE  known' = known \/ \E c : known' = known \cup {c}
  BY <1>c DEF WireBean
\* Nothing that matters here.
<1>d. ASSUME UNCHANGED <<program, stack, err, deps, known, destroyers, destroyed>>,
             \/ phase' = phase
             \/ phase' = "failed"
             \/ phase = "wiring" /\ phase' = "lazy" /\ stack = << >> /\ ~err
             \/ phase = "refreshed" /\ phase' = "closed" /\ destroyers = << >>
      PROVE  DestroyInv'
  BY <1>d DEF DestroyInv, WiringIsOver, CallbacksOrdered
<1>1. CASE WireRoot
  BY <1>1, <1>b, <1>c DEF WireRoot
<1>2. CASE WireCandidate
  BY <1>2, <1>b, <1>c DEF WireCandidate, InFrame
<1>3. CASE DeferField \/ SetPoint \/ DependsDone \/ Construct \/ ConstructsNil \/ Initialize
           \/ ReturnError
  BY <1>3, <1>b DEF DeferField, SetPoint, DependsDone, Construct, ConstructsNil, Initialize,
                    ReturnError, StageDone, InFrame
<1>4. CASE RefusePoint \/ ConstructFails
  BY <1>4, <1>b DEF RefusePoint, ConstructFails, StageDone, InFrame
<1>5. CASE WiringFails \/ StartLazy \/ SetLazyField \/ Closed
  BY <1>5, <1>d DEF WiringFails, StartLazy, SetLazyField, Closed
<1>6. CASE SortDestroyers
  <2>1. phase = "lazy" /\ UNCHANGED <<program, stack, err, deps, known, destroyed>>
    BY <1>6 DEF SortDestroyers
  <2>2. CASE phase' = "failed" /\ UNCHANGED destroyers
    BY <1>d, <2>1, <2>2
  <2>3. CASE phase' = "refreshed" /\ \E s \in Sorts : \E d \in Callbacks :
                  /\ \A i, j \in DOMAIN d : i < j => Precedes(d[j], d[i], s)
                  /\ destroyers' = d
    <3>1. PICK s \in Sorts, d \in Callbacks :
                  /\ \A i, j \in DOMAIN d : i < j => Precedes(d[j], d[i], s)
                  /\ destroyers' = d
      BY <2>3
    <3>2. IsFiniteSet(known) /\ stack = << >> /\ ~err /\ destroyed = << >>
      BY <2>1 DEF DestroyInv, WiringIsOver
    <3>3. d \in Seq(Bean)
      <4>1. IsFiniteSet(known \cap program.destroy) /\ known \subseteq Bean
        BY <3>2, FS_Subset DEF WiringTypeOK
      <4>2. d \in Seq(known \cap program.destroy)
        BY <4>1, SeqsOf DEF Callbacks
      <4> QED
        BY <4>1, <4>2
    <3>4. destroyed' \o destroyers' = d
      BY <2>1, <3>1, <3>2, <3>3
    <3>5. ASSUME NEW x \in known \cap program.destroy, NEW y \in known \cap program.destroy,
                 y \in deps[x]
          PROVE  Precedes(x, y, d)
      <4>1. finish[y] < finish[x] /\ finish[x] \in Nat
        <5>1. x \in Bean
          BY DEF WiringTypeOK
        <5>2. Len(stack) = 0 /\ 1..0 = {}
          BY <3>2
        <5>3. ~Above(y, x)
          BY <5>2 DEF Above
        <5> QED
          BY <3>5, <5>1, <5>3 DEF OrderInv, DependenciesInv, WiringTypeOK
      <4>2. x # y
        BY <4>1
      <4> QED
        BY <3>1, <3>2, <3>5, <4>2, ReadFromTheBack
    <3>6. CallbacksOrdered'
      BY <1>a, <2>1, <3>4, <3>5 DEF CallbacksOrdered
    <3> QED
      BY <2>1, <2>3, <3>1, <3>2, <3>3, <3>6 DEF DestroyInv, WiringIsOver
  <2> QED
    BY <1>6, <2>2, <2>3 DEF SortDestroyers
<1>7. CASE DestroyNext
  <2>1. /\ phase = "refreshed" /\ phase' = phase /\ destroyers # << >>
        /\ destroyed' = Append(destroyed, Head(destroyers))
        /\ destroyers' = Tail(destroyers)
        /\ UNCHANGED <<program, stack, err, deps, known>>
    BY <1>7 DEF DestroyNext
  <2>2. destroyers \in Seq(Bean) /\ destroyed \in Seq(Bean)
    BY DEF DestroyInv
  <2>3. destroyers' \in Seq(Bean) /\ destroyed' \in Seq(Bean)
    BY <2>1, <2>2
  <2>4. destroyed' \o destroyers' = destroyed \o destroyers
    BY <2>1, <2>2
  <2>5. CallbacksOrdered'
    BY <2>1, <2>4 DEF DestroyInv, CallbacksOrdered
  <2> QED
    BY <2>1, <2>3, <2>5 DEF DestroyInv, WiringIsOver
<1>8. CASE UNCHANGED vars
  BY <1>8, <1>d DEF vars
<1> QED
  BY <1>1, <1>2, <1>3, <1>4, <1>5, <1>6, <1>7, <1>8 DEF Next, Step, Terminated

\* DestroyInv holds from the start.
LEMMA DestroyStart == Init => DestroyInv
<1> SUFFICES ASSUME Init PROVE DestroyInv
  OBVIOUS
<1>1. IsFiniteSet(known)
  BY FS_EmptySet DEF Init
<1>2. << >> \in Seq(Bean)
  OBVIOUS
<1> QED
  BY <1>1, <1>2 DEF Init, DestroyInv, WiringIsOver, CallbacksOrdered

\* Every variable keeps its type, through Refresh and Close.
THEOREM Typing == Spec => []TypeOK
<1>1. WiringTypeOK /\ WiringTypeOK' /\ OrderInv /\ [Next]_vars => OrderInv'
  BY OrderStep
<1>2. WiringTypeOK /\ WiringTypeOK' /\ OrderInv /\ DestroyInv /\ [Next]_vars => DestroyInv'
  BY DestroyStep
<1>3. WiringTypeOK /\ DestroyInv => TypeOK
  BY DEF DestroyInv, TypeOK
<1> QED
  BY <1>1, <1>2, <1>3, OrderStart, DestroyStart, WiringTyping, PTL DEF Spec

\* Unless injections are nullable throughout, Close destroys a bean before the
\* beans that were injected into it, except those that need it in turn
\* (injecting.go:936-956).
THEOREM DestroyedReverse == Spec => []DestroyedInReverse
<1>1. WiringTypeOK /\ WiringTypeOK' /\ OrderInv /\ [Next]_vars => OrderInv'
  BY OrderStep
<1>2. WiringTypeOK /\ WiringTypeOK' /\ OrderInv /\ MetInv /\ [Next]_vars => MetInv'
  BY MetStep
<1>3. WiringTypeOK /\ WiringTypeOK' /\ OrderInv /\ DestroyInv /\ [Next]_vars => DestroyInv'
  BY DestroyStep
<1>4. WiringTypeOK /\ MetInv /\ DestroyInv => DestroyedInReverse
  <2> SUFFICES ASSUME WiringTypeOK, MetInv, DestroyInv, phase = "closed", ~program.force,
                      NEW x \in known \cap program.destroy,
                      NEW y \in EagerTargets(x) \cap program.destroy, x \notin Needs(y)
               PROVE  Precedes(x, y, destroyed)
    BY DEF DestroyedInReverse
  <2>1. x \in Bean /\ stack = << >> /\ ~err /\ DOMAIN << >> = {}
    BY DEF WiringTypeOK, DestroyInv, WiringIsOver
  <2>2. UnderWay /\ KnownIsMet /\ WiredMet
    BY DEF MetInv, MetParts
  <2>3. status[x] = "wired"
    BY <2>1, <2>2 DEF UnderWay, KnownIsMet, OnPath, WiringTypeOK
  <2>4. y \in deps[x] \cap known
    BY <2>1, <2>2, <2>3 DEF WiredMet, Settled
  <2>5. Precedes(x, y, destroyed \o destroyers)
    BY <2>4 DEF DestroyInv, CallbacksOrdered
  <2>6. destroyed \o destroyers = destroyed
    BY DEF DestroyInv
  <2> QED
    BY <2>5, <2>6
<1> QED
  BY <1>1, <1>2, <1>3, <1>4, OrderStart, MetStart, DestroyStart, WiringTyping, PTL DEF Spec

-----------------------------------------------------------------------------
(* The sort. *)

\* A finite set of beans can be put in the order of any ranking.
LEMMA RankedOrder ==
    ASSUME NEW rank \in [Bean -> Nat], NEW S \in SUBSET Bean, IsFiniteSet(S)
    PROVE  \E s \in SetToSeqs(S) : \A i, j \in DOMAIN s : i < j => rank[s[i]] <= rank[s[j]]
<1> DEFINE Ordered(X) ==
              \E s \in SetToSeqs(X) : \A i, j \in DOMAIN s : i < j => rank[s[i]] <= rank[s[j]]
           Fails == {n \in Nat : \E X \in SUBSET Bean :
                                    IsFiniteSet(X) /\ Cardinality(X) = n /\ ~Ordered(X)}
<1>1. ASSUME NEW n \in Fails, \A m \in Nat : m < n => m \notin Fails PROVE FALSE
  <2>1. PICK X \in SUBSET Bean : IsFiniteSet(X) /\ Cardinality(X) = n /\ ~Ordered(X)
    BY <1>1
  <2>2. CASE X = {}
    <3>1. n = 0
      BY <2>1, <2>2, FS_EmptySet
    <3>2. << >> \in [1..0 -> X] /\ DOMAIN << >> = {} /\ 1..0 = {}
      OBVIOUS
    <3>3. << >> \in SetToSeqs(X)
      BY <2>1, <3>1, <3>2 DEF SetToSeqs
    <3> QED
      BY <2>1, <3>2, <3>3
  <2>3. CASE X # {}
    <3>1. PICK x \in X : \A y \in X : rank[x] <= rank[y]
      <4> DEFINE Ranks == {rank[y] : y \in X}
      <4>1. Ranks \in SUBSET Nat /\ Ranks # {}
        BY <2>3
      <4> HIDE DEF Ranks
      <4>2. PICK r \in Ranks : \A q \in Ranks : ~ <<q, r>> \in OpToRel(<, Nat)
        BY <4>1, NatLessThanWellFounded, WFMin
      <4>3. \A q \in Ranks : r <= q
        <5>1. \A q \in Ranks : q \in Nat /\ r \in Nat /\ ~(q < r)
          BY <4>1, <4>2 DEF OpToRel
        <5> QED
          BY <5>1
      <4> QED
        BY <4>2, <4>3 DEF Ranks
    <3>2. IsFiniteSet(X \ {x}) /\ Cardinality(X \ {x}) = n - 1 /\ n \in Nat
      BY <2>1, FS_RemoveElement
    <3>3. n - 1 \in Nat /\ n - 1 < n
      BY <3>2, FS_CardinalityType
    <3>4. PICK t \in SetToSeqs(X \ {x}) :
             \A i, j \in DOMAIN t : i < j => rank[t[i]] <= rank[t[j]]
      BY <1>1, <3>2, <3>3
    <3>5. t \in [1..(n - 1) -> X \ {x}] /\ \A i, j \in 1..(n - 1) : i # j => t[i] # t[j]
      BY <3>2, <3>4 DEF SetToSeqs
    <3> DEFINE s == [i \in 1..n |-> IF i = 1 THEN x ELSE t[i - 1]]
    <3>6. /\ \A i \in 1..n : i # 1 => i - 1 \in 1..(n - 1) /\ t[i - 1] \in X \ {x}
          /\ DOMAIN s = 1..n
          /\ \A i \in 1..n : s[i] = IF i = 1 THEN x ELSE t[i - 1]
      BY <3>3, <3>5
    <3>7. s \in [1..n -> X]
      BY <3>6
    <3> HIDE DEF s
    <3>8. \A i, j \in 1..n : i # j => s[i] # s[j]
      BY <3>3, <3>5, <3>6
    <3>9. s \in SetToSeqs(X)
      BY <2>1, <3>7, <3>8 DEF SetToSeqs
    <3>10. ASSUME NEW i \in 1..n, NEW j \in 1..n, i < j PROVE rank[s[i]] <= rank[s[j]]
      <4>1. j # 1 /\ j - 1 \in 1..(n - 1) /\ s[j] \in X
        BY <3>3, <3>6, <3>7, <3>10
      <4>2. CASE i = 1
        BY <3>1, <3>6, <4>1, <4>2
      <4>3. CASE i # 1
        <5>1. i - 1 \in 1..(n - 1) /\ i - 1 < j - 1
          BY <3>6, <3>10, <4>3
        <5>2. rank[t[i - 1]] <= rank[t[j - 1]]
          BY <3>4, <3>5, <4>1, <5>1
        <5> QED
          BY <3>6, <4>1, <4>3, <5>2
      <4> QED
        BY <4>2, <4>3
    <3> QED
      BY <2>1, <3>6, <3>9, <3>10
  <2> QED
    BY <2>2, <2>3
<1>2. Fails = {}
  <2> SUFFICES ASSUME Fails # {} PROVE FALSE
    OBVIOUS
  <2>1. PICK n \in Fails : \A m \in Fails : ~ <<m, n>> \in OpToRel(<, Nat)
    BY NatLessThanWellFounded, WFMin
  <2>2. \A m \in Nat : m < n => m \notin Fails
    BY <2>1 DEF OpToRel
  <2> HIDE DEF Fails
  <2> QED
    BY <1>1, <2>2
<1>3. Cardinality(S) \in Nat
  BY FS_CardinalityType
<1> QED
  BY <1>2, <1>3

\* When Refresh comes to the sort, the recorded dependencies have one: no
\* application that could be wired is refused for a cycle among them, although
\* fields may refer to each other in a circle (injecting.go:936-939).
SortIsPossible == phase = "lazy" => Sorts # {}

\* getSortedDestroyers does not fail.
THEOREM SortSucceeds == Spec => []SortIsPossible
<1>1. WiringTypeOK /\ WiringTypeOK' /\ OrderInv /\ [Next]_vars => OrderInv'
  BY OrderStep
<1>2. WiringTypeOK /\ WiringTypeOK' /\ OrderInv /\ DestroyInv /\ [Next]_vars => DestroyInv'
  BY DestroyStep
<1>3. WiringTypeOK /\ OrderInv /\ DestroyInv => SortIsPossible
  <2> SUFFICES ASSUME WiringTypeOK, OrderInv, DestroyInv, phase = "lazy" PROVE Sorts # {}
    BY DEF SortIsPossible
  <2>1. stack = << >> /\ IsFiniteSet(known) /\ known \in SUBSET Bean /\ finish \in [Bean -> Nat]
    BY DEF DestroyInv, WiringIsOver, WiringTypeOK
  <2>2. PICK s \in SetToSeqs(known) :
           \A i, j \in DOMAIN s : i < j => finish[s[i]] <= finish[s[j]]
    BY <2>1, RankedOrder
  <2>3. s \in Seq(known)
    BY <2>1, SeqsOf
  <2>4. ASSUME NEW i \in DOMAIN s, NEW j \in DOMAIN s, s[j] \in deps[s[i]] PROVE j < i
    <3>1. s[i] \in Bean /\ s[j] \in Bean /\ i \in Nat /\ j \in Nat
      BY <2>1, <2>3
    <3>2. ~Above(s[j], s[i])
      <4>1. Len(stack) = 0 /\ 1..0 = {}
        BY <2>1
      <4> QED
        BY <4>1 DEF Above
    <3>3. finish[s[j]] < finish[s[i]] /\ finish[s[i]] \in Nat /\ finish[s[j]] \in Nat
      BY <2>1, <2>4, <3>1, <3>2 DEF OrderInv, DependenciesInv
    <3>4. i # j
      BY <3>3
    <3>5. ~(i < j)
      BY <2>2, <3>3
    <3> QED
      BY <3>1, <3>4, <3>5
  <2> QED
    BY <2>2, <2>4 DEF Sorts
<1> QED
  BY <1>1, <1>2, <1>3, OrderStart, DestroyStart, WiringTyping, PTL DEF Spec
-----------------------------------------------------------------------------
(* Every bean is wired once. *)

\* The status of a bean on the path is the one that the stage of its frame asks for.
OnStage(f, s) == s[f.bean] = IF f.stage = "fields" THEN "created" ELSE "creating"

StageInv ==
    /\ \A i \in 1..Len(stack) : OnStage(stack[i], status)
    /\ WiredIsFinished

\* A bean takes no step back.
MovesForward(b) ==
    /\ status[b] = "creating" => status'[b] # "resolved"
    /\ status[b] = "created"  => status'[b] \in {"created", "wired"}
    /\ status[b] = "wired"    => status'[b] = "wired"

\* A step takes no bean back to an earlier status, leaves a bean alone once
\* wireBean has returned for it, calls its constructor only while it is being
\* created, and its Init only once it is.
WiredOnce ==
    /\ \A b \in Bean : MovesForward(b)
    /\ \A b \in Bean : finish[b] # 0 => finish'[b] = finish[b] /\ ~OnPath(b)'
    /\ Construct \/ ConstructFails \/ ConstructsNil => status[Top.bean] = "creating"
    /\ Initialize => status[Top.bean] = "created"

\* What each step is shown to do.
Forward ==
    /\ StageInv'
    /\ \A b \in Bean : MovesForward(b)
    /\ \A b \in Bean : finish[b] # 0 => finish'[b] = finish[b]

\* The path and its beans.
LEMMA PathBeans ==
    ASSUME WiringTypeOK
    PROVE  /\ Len(stack) \in Nat /\ DOMAIN stack = 1..Len(stack)
           /\ \A i \in 1..Len(stack) : stack[i] \in Frame /\ stack[i].bean \in Bean
           /\ \A b : OnPath(b) <=> \E i \in 1..Len(stack) : stack[i].bean = b
           /\ stack # << >> => 1 \in 1..Len(stack) /\ Top = stack[1]
<1>1. stack \in Seq(Frame) /\ Len(stack) \in Nat /\ DOMAIN stack = 1..Len(stack)
  BY DEF WiringTypeOK
<1>2. ASSUME NEW i \in 1..Len(stack) PROVE stack[i] \in Frame /\ stack[i].bean \in Bean
  <2>1. stack[i] \in Frame
    BY <1>1, SeqElement
  <2> QED
    BY <2>1 DEF Frame
<1>3. stack # << >> => 1 \in 1..Len(stack) /\ Top = stack[1]
  BY <1>1, TopType
<1> QED
  BY <1>1, <1>2, <1>3 DEF OnPath

\* A step that leaves the beans of the path and their stages as they are.
LEMMA SameStages ==
    ASSUME WiringTypeOK, WiringTypeOK', StageInv,
           Len(stack') = Len(stack),
           \A i \in 1..Len(stack) :
              /\ stack'[i].bean = stack[i].bean
              /\ stack'[i].stage = "fields" <=> stack[i].stage = "fields",
           UNCHANGED <<status, finish>>
    PROVE  Forward
<1>1. \A i \in 1..Len(stack) : OnStage(stack'[i], status')
  BY DEF StageInv, OnStage
<1>2. WiredIsFinished'
  BY DEF StageInv, WiredIsFinished
<1>3. \A b \in Bean : MovesForward(b)
  BY DEF MovesForward
<1> QED
  BY <1>1, <1>2, <1>3 DEF Forward, StageInv

\* The innermost call of wireBean returns, its bean as it is, or wired.
LEMMA PoppedStages ==
    ASSUME WiringTypeOK, WiringTypeOK', OrderInv, StageInv, stack # << >>,
           stack' = Tail(stack), Finish(Top.bean),
           \/ status' = status
           \/ status' = [status EXCEPT ![Top.bean] = "wired"]
    PROVE  Forward
<1>1. PICK t \in Bean : t = Top.bean
  BY HereType
<1>2. /\ Len(stack) \in Nat /\ Top = stack[1] /\ 1 \in 1..Len(stack)
      /\ Len(stack') = Len(stack) - 1
      /\ \A i \in 1..Len(stack) - 1 : stack'[i] = stack[i + 1]
  BY PathBeans, TopType DEF WiringTypeOK
<1>3. \A i \in 1..Len(stack) - 1 : i + 1 \in 1..Len(stack) /\ i + 1 # 1
  BY <1>2
<1>4. /\ finish'[t] = clock /\ clock # 0 /\ finish[t] = 0
      /\ \A b \in Bean : b # t => finish'[b] = finish[b]
  BY <1>1, <1>2 DEF Finish, WiringTypeOK, OrderInv, OncePerBean
<1>5. /\ \A b \in Bean : b # t => status'[b] = status[b]
      /\ status'[t] \in {status[t], "wired"}
  BY <1>1 DEF WiringTypeOK
<1>6. ASSUME NEW i \in 1..Len(stack) - 1
      PROVE  /\ stack'[i] = stack[i + 1] /\ stack[i + 1].bean \in Bean
             /\ stack[i + 1].bean # t /\ OnStage(stack[i + 1], status)
  <2>1. i + 1 \in 1..Len(stack) /\ i + 1 # 1
    BY <1>3
  <2>2. stack[i + 1].bean # stack[1].bean
    BY <1>2, <2>1 DEF OrderInv, OncePerBean
  <2> QED
    BY <1>1, <1>2, <2>1, <2>2, PathBeans DEF StageInv
<1>7. \A i \in 1..Len(stack') : OnStage(stack'[i], status')
  BY <1>2, <1>5, <1>6 DEF OnStage
<1>8. WiredIsFinished'
  <2> SUFFICES ASSUME NEW b \in Bean, status'[b] = "wired" PROVE finish'[b] # 0
    BY DEF WiredIsFinished
  <2>1. CASE b = t
    BY <1>4, <2>1
  <2>2. CASE b # t
    BY <1>4, <1>5, <2>2 DEF StageInv, WiredIsFinished
  <2> QED
    BY <2>1, <2>2
<1>9. ASSUME NEW b \in Bean PROVE MovesForward(b)
  <2>1. status'[b] \in {status[b], "wired"}
    BY <1>5
  <2> QED
    BY <2>1 DEF MovesForward
<1>10. \A b \in Bean : finish[b] # 0 => finish'[b] = finish[b]
  BY <1>4
<1> QED
  BY <1>7, <1>8, <1>9, <1>10 DEF Forward, StageInv

\* The constructor returns a value.
LEMMA ConstructStages ==
    ASSUME WiringTypeOK, WiringTypeOK', OrderInv, StageInv, Construct
    PROVE  Forward /\ status[Top.bean] = "creating"
<1>1. /\ stack # << >> /\ Top.stage = "ctor"
      /\ status' = [status EXCEPT ![Top.bean] = "created"]
      /\ finish' = finish
      /\ stack' = Replaced([Top EXCEPT !.stage = "fields", !.point = 1, !.cand = 1])
  BY DEF Construct, StageDone, InFrame, NextStage, Replaced
<1>2. PICK t \in Bean : t = Top.bean
  BY <1>1, HereType
<1>3. PICK f \in Frame :
         /\ f = [Top EXCEPT !.stage = "fields", !.point = 1, !.cand = 1]
         /\ f.bean = t /\ f.stage = "fields"
  <2>1. "fields" \in Stage
    BY DEF Stage
  <2>2. /\ [Top EXCEPT !.stage = "fields", !.point = 1, !.cand = 1] \in Frame
        /\ [Top EXCEPT !.stage = "fields", !.point = 1, !.cand = 1].bean = Top.bean
    BY <1>1, <2>1, MovedType, MovedBean
  <2>3. [Top EXCEPT !.stage = "fields", !.point = 1, !.cand = 1].stage = "fields"
    BY <1>1, HereType DEF Frame
  <2> QED
    BY <1>2, <2>2, <2>3
<1>4. /\ Len(stack) \in Nat /\ Top = stack[1] /\ 1 \in 1..Len(stack)
      /\ Len(stack') = Len(stack) /\ stack'[1] = f
      /\ \A i \in 2..Len(stack) : stack'[i] = stack[i]
  <2>1. stack' = Replaced(f) /\ stack \in Seq(Frame)
    BY <1>1, <1>3 DEF WiringTypeOK
  <2>2. /\ Len(Replaced(f)) = Len(stack) /\ Replaced(f)[1] = f
        /\ \A i \in 2..Len(stack) : Replaced(f)[i] = stack[i]
    BY <1>1, <2>1, ReplacedType
  <2> QED
    BY <1>1, <2>1, <2>2, PathBeans
<1>5. status[t] = "creating"
  BY <1>1, <1>2, <1>4 DEF StageInv, OnStage
<1>6. /\ status'[t] = "created"
      /\ \A b \in Bean : b # t => status'[b] = status[b]
  BY <1>1, <1>2 DEF WiringTypeOK
<1>7. ASSUME NEW i \in 1..Len(stack) PROVE OnStage(stack'[i], status')
  <2>1. CASE i = 1
    BY <1>3, <1>4, <1>6, <2>1 DEF OnStage
  <2>2. CASE i # 1
    <3>1. i \in 2..Len(stack)
      BY <1>4, <2>2
    <3>2. stack[i].bean # stack[1].bean
      BY <1>4, <2>2 DEF OrderInv, OncePerBean
    <3>3. stack[i].bean \in Bean /\ OnStage(stack[i], status)
      BY PathBeans DEF StageInv
    <3> QED
      BY <1>2, <1>4, <1>6, <3>1, <3>2, <3>3 DEF OnStage
  <2> QED
    BY <2>1, <2>2
<1>8. WiredIsFinished'
  BY <1>1, <1>6 DEF StageInv, WiredIsFinished
<1>9. \A b \in Bean : MovesForward(b)
  BY <1>5, <1>6 DEF MovesForward
<1> QED
  BY <1>1, <1>2, <1>4, <1>5, <1>7, <1>8, <1>9 DEF Forward, StageInv

\* A call of wireBean by the function whose frames are rest.
LEMMA CalledStages ==
    ASSUME WiringTypeOK, WiringTypeOK', OrderInv, StageInv,
           NEW b \in Bean, NEW rest \in Seq(Frame),
           Len(rest) = Len(stack),
           \A i \in 1..Len(stack) :
              /\ rest[i].bean = stack[i].bean
              /\ rest[i].stage = "fields" <=> stack[i].stage = "fields",
           WireBean(b, rest), UNCHANGED finish
    PROVE  Forward
<1>1. CASE stack' = rest /\ UNCHANGED status
  BY <1>1, SameStages
<1>2. CASE ~(stack' = rest /\ UNCHANGED status)
  <2>1. PICK f \in Frame :
           f = [bean |-> b, stage |-> "depends", point |-> 1, cand |-> 1]
    <3>1. [bean |-> b, stage |-> "depends", point |-> 1, cand |-> 1] \in Frame
      BY DEF Frame
    <3> QED
      BY <3>1
  <2>2. f.bean = b /\ f.stage = "depends"
    BY <2>1
  <2>3. /\ status[b] \notin {"creating", "created", "wired"} /\ ~OnPath(b)
        /\ status' = [status EXCEPT ![b] = "creating"]
        /\ stack' = << f >> \o rest
    BY <1>2, <2>1 DEF WireBean
  <2>4. /\ status'[b] = "creating"
        /\ \A c \in Bean : c # b => status'[c] = status[c]
    BY <2>3 DEF WiringTypeOK
  <2>5. /\ Len(stack) \in Nat
        /\ Len(stack') = Len(stack) + 1 /\ stack'[1] = f
        /\ \A i \in 1..Len(stack) : stack'[i + 1] = rest[i]
    BY <2>3, PathBeans, PushedType
  <2>6. ASSUME NEW i \in 1..Len(stack) PROVE OnStage(stack'[i + 1], status')
    <3>1. stack[i].bean \in Bean /\ stack[i].bean # b
      BY <2>3, PathBeans
    <3>2. OnStage(stack[i], status)
      BY DEF StageInv
    <3>3. /\ stack'[i + 1].bean = stack[i].bean
          /\ stack'[i + 1].stage = "fields" <=> stack[i].stage = "fields"
      BY <2>5
    <3> QED
      BY <2>4, <3>1, <3>2, <3>3 DEF OnStage
  <2>7. ASSUME NEW i \in 1..Len(stack') PROVE OnStage(stack'[i], status')
    <3>1. CASE i = 1
      BY <2>2, <2>4, <2>5, <3>1 DEF OnStage
    <3>2. CASE i # 1
      <4>1. i - 1 \in 1..Len(stack) /\ (i - 1) + 1 = i
        BY <2>5, <3>2
      <4>2. OnStage(stack'[(i - 1) + 1], status')
        BY <2>6, <4>1
      <4> QED
        BY <4>1, <4>2
    <3> QED
      BY <3>1, <3>2
  <2>8. WiredIsFinished'
    BY <2>4 DEF StageInv, WiredIsFinished
  <2>9. \A c \in Bean : MovesForward(c)
    BY <2>3, <2>4 DEF MovesForward
  <2> QED
    BY <2>7, <2>8, <2>9 DEF Forward, StageInv
<1> QED
  BY <1>1, <1>2

\* The frames on the path keep their beans and stages when the innermost moves on
\* within its stage, or from the dependencies to the constructor.
LEMMA ReplacedStages ==
    ASSUME WiringTypeOK, stack # << >>, NEW f \in Frame, f.bean = Top.bean,
           f.stage = "fields" <=> Top.stage = "fields"
    PROVE  /\ Replaced(f) \in Seq(Frame)
           /\ Len(Replaced(f)) = Len(stack)
           /\ \A i \in 1..Len(stack) :
                 /\ Replaced(f)[i].bean = stack[i].bean
                 /\ Replaced(f)[i].stage = "fields" <=> stack[i].stage = "fields"
<1>1. /\ Replaced(f) \in Seq(Frame) /\ Len(Replaced(f)) = Len(stack)
      /\ Replaced(f)[1] = f /\ Top = stack[1]
      /\ \A i \in 2..Len(stack) : Replaced(f)[i] = stack[i]
  BY ReplacedType, TopType DEF WiringTypeOK
<1>2. \A i \in 1..Len(stack) : i = 1 \/ i \in 2..Len(stack)
  BY PathBeans
<1> QED
  BY <1>1, <1>2

\* The stages of the frames that the actions put in the place of the innermost.
LEMMA MovedStage ==
    ASSUME WiringTypeOK, stack # << >>
    PROVE  /\ [Top EXCEPT !.cand = @ + 1].stage = Top.stage
           /\ [Top EXCEPT !.point = @ + 1].stage = Top.stage
           /\ [Top EXCEPT !.point = @ + 1, !.cand = 1].stage = Top.stage
           /\ \A stage \in Stage :
                 [Top EXCEPT !.stage = stage, !.point = 1, !.cand = 1].stage = stage
  BY HereType DEF Frame

\* Every step moves forward.
LEMMA ForwardStep ==
    ASSUME WiringTypeOK, WiringTypeOK', OrderInv, StageInv, [Next]_vars
    PROVE  Forward
\* A step that leaves the path alone.
<1>a. ASSUME UNCHANGED <<stack, status, finish>> PROVE Forward
  BY <1>a, SameStages
\* A step that moves the innermost frame on.
<1>b. ASSUME stack # << >>, NEW f \in Frame, f.bean = Top.bean,
             f.stage = "fields" <=> Top.stage = "fields",
             stack' = Replaced(f), UNCHANGED <<status, finish>>
      PROVE  Forward
  BY <1>b, ReplacedStages, SameStages
<1>1. CASE WireRoot
  <2>1. program.roots[pos] \in Bean
    <3>1. program.roots \in Seq(Bean) /\ pos \in DOMAIN program.roots
      BY <1>1 DEF WireRoot, WiringTypeOK, ProgramType
    <3> QED
      BY <3>1
  <2>2. << >> \in Seq(Frame) /\ stack = << >> /\ 1..Len(stack) = {}
    BY <1>1 DEF WireRoot
  <2>3. WireBean(program.roots[pos], << >>) /\ UNCHANGED finish
    BY <1>1 DEF WireRoot
  <2> QED
    BY <2>1, <2>2, <2>3, CalledStages
<1>2. CASE DeferField
  BY <1>2, <1>b, MovedType, MovedBean, MovedStage DEF DeferField, InFrame, Replaced
<1>3. CASE RefusePoint
  BY <1>3, <1>a DEF RefusePoint
<1>4. CASE WireCandidate
  <2>1. stack # << >> /\ Here.cands[Top.cand] \in Bean
    BY <1>4, HereType DEF WireCandidate, InFrame
  <2>2. /\ WireBean(Here.cands[Top.cand], Replaced([Top EXCEPT !.cand = @ + 1]))
        /\ UNCHANGED finish
    BY <1>4 DEF WireCandidate, Replaced
  <2>3. PICK f \in Frame : /\ f = [Top EXCEPT !.cand = @ + 1]
                           /\ f.bean = Top.bean /\ f.stage = Top.stage
    BY <2>1, MovedType, MovedBean, MovedStage
  <2>4. PICK rest \in Seq(Frame) : rest = Replaced(f)
    BY <2>1, <2>3, ReplacedStages
  <2>5. /\ Len(rest) = Len(stack)
        /\ \A i \in 1..Len(stack) :
              /\ rest[i].bean = stack[i].bean
              /\ rest[i].stage = "fields" <=> stack[i].stage = "fields"
    BY <2>1, <2>3, <2>4, ReplacedStages
  <2>6. PICK b \in Bean : b = Here.cands[Top.cand]
    BY <2>1
  <2>7. WireBean(b, rest)
    BY <2>2, <2>3, <2>4, <2>6
  <2> QED
    BY <2>2, <2>5, <2>7, CalledStages
<1>5. CASE SetPoint
  BY <1>5, <1>b, MovedType, MovedBean, MovedStage DEF SetPoint, InFrame, Replaced
<1>6. CASE DependsDone
  BY <1>6, <1>b, MovedType, MovedBean, MovedStage
     DEF DependsDone, StageDone, InFrame, NextStage, Replaced, Stage
<1>7. CASE Construct
  BY <1>7, ConstructStages
<1>8. CASE ConstructFails
  BY <1>8, <1>a DEF ConstructFails
<1>9. CASE ConstructsNil
  BY <1>9, PoppedStages DEF ConstructsNil, StageDone, InFrame
<1>10. CASE Initialize
  BY <1>10, PoppedStages DEF Initialize, StageDone, InFrame
<1>11. CASE ReturnError
  BY <1>11, PoppedStages DEF ReturnError
<1>12. CASE WiringFails
  BY <1>12, <1>a DEF WiringFails
<1>13. CASE StartLazy
  BY <1>13, <1>a DEF StartLazy
<1>14. CASE SetLazyField
  BY <1>14, <1>a DEF SetLazyField
<1>15. CASE SortDestroyers
  BY <1>15, <1>a DEF SortDestroyers
<1>16. CASE DestroyNext
  BY <1>16, <1>a DEF DestroyNext
<1>17. CASE Closed
  BY <1>17, <1>a DEF Closed
<1>18. CASE UNCHANGED vars
  BY <1>18, <1>a DEF vars
<1> QED
  BY <1>1, <1>2, <1>3, <1>4, <1>5, <1>6, <1>7, <1>8, <1>9, <1>10, <1>11, <1>12,
     <1>13, <1>14, <1>15, <1>16, <1>17, <1>18 DEF Next, Step, Terminated

\* StageInv is inductive, and no bean is wired twice.
LEMMA StageStep ==
    ASSUME WiringTypeOK, WiringTypeOK', OrderInv, StageInv, [Next]_vars
    PROVE  StageInv' /\ WiredOnce
<1>1. Forward
  BY ForwardStep
\* What has been finished is not on the path again.
<1>2. ASSUME NEW b \in Bean, finish[b] # 0 PROVE finish'[b] = finish[b] /\ ~OnPath(b)'
  <2>1. finish'[b] # 0 /\ finish'[b] = finish[b]
    BY <1>1, <1>2 DEF Forward
  <2>2. ASSUME OnPath(b)' PROVE FALSE
    <3>1. PICK i \in 1..Len(stack') : stack'[i].bean = b
      <4>1. DOMAIN stack' = 1..Len(stack')
        BY DEF WiringTypeOK
      <4> QED
        BY <2>2, <4>1 DEF OnPath
    <3>2. OrderInv'
      BY OrderStep
    <3> QED
      BY <2>1, <3>1, <3>2 DEF OrderInv, OncePerBean
  <2> QED
    BY <2>1, <2>2
<1>3. ASSUME Construct \/ ConstructFails \/ ConstructsNil
       PROVE  status[Top.bean] = "creating"
  <2>1. stack # << >> /\ Top.stage = "ctor"
    BY <1>3 DEF Construct, ConstructFails, ConstructsNil, StageDone, InFrame
  <2> QED
    BY <2>1, PathBeans DEF StageInv, OnStage
<1>4. ASSUME Initialize PROVE status[Top.bean] = "created"
  <2>1. stack # << >> /\ Top.stage = "fields"
    BY <1>4 DEF Initialize, StageDone, InFrame
  <2> QED
    BY <2>1, PathBeans DEF StageInv, OnStage
<1> QED
  BY <1>1, <1>2, <1>3, <1>4 DEF Forward, WiredOnce

\* Every bean is a singleton: whatever the beans need from each other, and even
\* when errors are swallowed, no step takes a bean back, wireBean does the work
\* for it once, and its constructor and its Init are called at most once
\* (injecting.go:577-658).
THEOREM BeansAreWiredOnce == Spec => [][WiredOnce]_vars
<1>1. Init => StageInv
  <2> SUFFICES ASSUME Init PROVE StageInv
    OBVIOUS
  <2>1. 1..Len(stack) = {} /\ \A b \in Bean : status[b] # "wired"
    BY DEF Init
  <2> QED
    BY <2>1 DEF StageInv, WiredIsFinished
<1>2. WiringTypeOK /\ WiringTypeOK' /\ OrderInv /\ [Next]_vars => OrderInv'
  BY OrderStep
<1>3. WiringTypeOK /\ WiringTypeOK' /\ OrderInv /\ StageInv /\ [Next]_vars
      => StageInv' /\ WiredOnce
  BY StageStep
<1> QED
  BY <1>1, <1>2, <1>3, OrderStart, WiringTyping, PTL DEF Spec

\* The recursion of wireBean is never deeper than there are beans: a bean that
\* is on its path is not entered again (injecting.go:593-601).
THEOREM WiringIsBounded ==
    ASSUME IsFiniteSet(Bean)
    PROVE  Spec => [](Len(stack) <= Cardinality(Bean))
<1> DEFINE Bound == Len(stack) <= Cardinality(Bean)
<1>1. WiringTypeOK /\ WiringTypeOK' /\ OrderInv /\ [Next]_vars => OrderInv'
  BY OrderStep
<1>2. WiringTypeOK /\ OrderInv => Bound
  <2> SUFFICES ASSUME WiringTypeOK, OrderInv PROVE Bound
    OBVIOUS
  <2> DEFINE S == 1..Len(stack)
             path == [i \in S |-> stack[i].bean]
  <2>1. Len(stack) \in Nat /\ \A i \in S : stack[i].bean \in Bean
    BY PathBeans
  <2>2. IsFiniteSet(S) /\ Cardinality(S) = Len(stack)
    <3>1. /\ IsFiniteSet(1..Len(stack))
          /\ Cardinality(1..Len(stack)) = IF 1 > Len(stack) THEN 0 ELSE Len(stack) - 1 + 1
      <4>1. 1 \in Int /\ Len(stack) \in Int
        BY <2>1
      <4> QED
        BY <4>1, FS_Interval
    <3> QED
      BY <2>1, <3>1
  <2>3. path \in Injection(S, Bean)
    BY <2>1 DEF Injection, IsInjective, OrderInv, OncePerBean
  <2> HIDE DEF S, path
  <2>4. Cardinality(S) <= Cardinality(Bean)
    BY <2>2, <2>3, FS_Injection
  <2> QED
    BY <2>2, <2>4
<1> QED
  BY <1>1, <1>2, OrderStart, WiringTyping, PTL DEF Spec
=============================================================================
