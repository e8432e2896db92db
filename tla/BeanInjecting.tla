--------------------------- MODULE BeanInjecting ---------------------------
(***************************************************************************)
(* The injecting phase of the IoC container                                *)
(* (spring/gs/internal/gs_core/injecting/injecting.go): from the root      *)
(* beans, wireBean creates a bean, wires what it needs by calling itself,  *)
(* and initializes it; lazy fields are filled afterwards; the dependencies *)
(* recorded on the way give the order in which Close destroys the beans.   *)
(*                                                                         *)
(* wireBean recurses through its dependencies, so the call stack is        *)
(* explicit: a frame per bean on the wiring path (Stack.beanStack), with   *)
(* the stage wireBean has reached and the candidate it wires next.         *)
(*                                                                         *)
(* An injection point (a constructor argument or a field) is modelled by   *)
(* the candidates that match its type and tag, in the order getBeans gives *)
(* them.  finish and clock are history variables: the order in which the   *)
(* calls of wireBean that did the work returned.                           *)
(***************************************************************************)
EXTENDS Naturals, FiniteSets, SequencesExt

CONSTANTS
    Bean,       \* definitions kept by the resolving phase, and the roots
    Programs    \* what the beans need, see ProgramType

Point == [cands : Seq(Bean), many : BOOLEAN, nullable : BOOLEAN, lazy : BOOLEAN]

ProgramType ==
    [ force   : BOOLEAN,                \* spring.force-autowire-is-nullable
      roots   : Seq(Bean),
      object  : SUBSET Bean,            \* registered as objects, no constructor
      depends : [Bean -> Seq(Bean)],    \* DependsOn
      ctor    : [Bean -> Seq(Point)],
      result  : [Bean -> {"ok", "err", "nil"}],   \* of the constructor
      fields  : [Bean -> Seq(Point)],
      badInit : SUBSET Bean,            \* Init callback returns an error
      destroy : SUBSET Bean ]           \* has a Destroy callback

ASSUME InjectingAssumption == Programs \subseteq ProgramType

VARIABLES
    program,    \* what the beans need; never changes
    phase,
    pos,        \* loop index over roots, then over lazy fields
    status,     \* BeanStatus from StatusResolved on
    built,      \* beans whose value exists
    stack,      \* frames of wireBean, innermost first
    err,        \* an error is being returned to the innermost frame
    deps,       \* beanDepMap: what each bean was seen to depend on
    known,      \* DOMAIN beanDepMap
    lazies,     \* Stack.lazyFields
    holes,      \* injections of a value that does not exist
    destroyers, \* destroy callbacks still to run, first one first
    destroyed,  \* those that have run
    finish,     \* history: when wireBean of a bean returned, 0 if it did not
    clock       \* history: the next value of finish

vars == <<program, phase, pos, status, built, stack, err, deps, known, lazies,
          holes, destroyers, destroyed, finish, clock>>

Frame == [bean : Bean, stage : {"depends", "ctor", "fields"},
          point : Nat \ {0}, cand : Nat \ {0}]

WiringTypeOK ==
    /\ program \in ProgramType
    /\ phase \in {"wiring", "lazy", "refreshed", "failed", "closed"}
    /\ pos \in Nat \ {0}
    /\ status \in [Bean -> {"resolved", "creating", "created", "wired"}]
    /\ built \in SUBSET Bean
    /\ stack \in Seq(Frame)
    /\ err \in BOOLEAN
    /\ deps \in [Bean -> SUBSET Bean]
    /\ known \in SUBSET Bean
    /\ lazies \in Seq([bean : Bean, point : Point])
    /\ holes \in SUBSET [owner : Bean, target : Bean, lazy : BOOLEAN]
    /\ finish \in [Bean -> Nat]
    /\ clock \in Nat \ {0}

TypeOK ==
    /\ WiringTypeOK
    /\ destroyers \in Seq(Bean)
    /\ destroyed \in Seq(Bean)

-----------------------------------------------------------------------------
(* Helpers. *)

Top == Head(stack)

OnPath(b) == \E i \in DOMAIN stack : stack[i].bean = b

\* The injection points of a stage.  DependsOn takes whatever it finds.
Points(b, stage) ==
    CASE stage = "depends" -> << [cands |-> program.depends[b], many |-> TRUE,
                                  nullable |-> TRUE, lazy |-> FALSE] >>
      [] stage = "ctor"    -> program.ctor[b]
      [] stage = "fields"  -> program.fields[b]

\* getBean and getBeans accept the candidates of a point.
Acceptable(p) ==
    \/ Len(p.cands) = 1
    \/ Len(p.cands) = 0 /\ (p.nullable \/ program.force)
    \/ Len(p.cands) > 1 /\ p.many

\* Holes left by setting point p of bean b now.
NewHoles(b, p) == [owner : {b}, target : ToSet(p.cands) \ built, lazy : {p.lazy}]

\* popBean, when a call of wireBean that did the work returns.
Finish(b) ==
    /\ finish' = [finish EXCEPT ![b] = clock]
    /\ clock' = clock + 1

\* Mutant: the dependency is recorded before the path is looked at.
WireBeanRecordsFirst(b, rest) ==
    /\ deps' = IF rest = << >> THEN deps
               ELSE [deps EXCEPT ![Head(rest).bean] = @ \cup {b}]
    /\ known' = known \cup {b}
    /\ err' = (status[b] = "creating")
    /\ IF status[b] = "resolved"
       THEN /\ status' = [status EXCEPT ![b] = "creating"]
            /\ stack' = << [bean |-> b, stage |-> "depends",
                            point |-> 1, cand |-> 1] >> \o rest
       ELSE stack' = rest /\ UNCHANGED status

\* Mutant: a bean in construction is returned as it is, like one on the path.
WireBeanNoCircular(b, rest) ==
    /\ UNCHANGED err
    /\ IF OnPath(b)
       THEN stack' = rest /\ UNCHANGED <<status, deps, known>>
       ELSE /\ deps' = IF rest = << >> THEN deps
                       ELSE [deps EXCEPT ![Head(rest).bean] = @ \cup {b}]
            /\ known' = known \cup {b}
            /\ IF status[b] \in {"created", "wired"}
               THEN stack' = rest /\ UNCHANGED status
               ELSE /\ status' = [status EXCEPT ![b] = "creating"]
                    /\ stack' = << [bean |-> b, stage |-> "depends",
                                    point |-> 1, cand |-> 1] >> \o rest

\* wireBean(b), called by the function whose frames are `rest'.  A bean in
\* construction is a circular dependency; a bean on the path is returned as
\* it is; any other is pushed, which records it as a dependency of the
\* caller, and left alone if its constructor has already run.
WireBean(b, rest) ==
    IF status[b] = "creating"
    THEN /\ err' = TRUE
         /\ stack' = rest
         /\ UNCHANGED <<status, deps, known>>
    ELSE IF OnPath(b)
    THEN /\ stack' = rest
         /\ UNCHANGED <<status, deps, known, err>>
    ELSE /\ deps' = IF rest = << >> THEN deps
                    ELSE [deps EXCEPT ![Head(rest).bean] = @ \cup {b}]
         /\ known' = known \cup {b}
         /\ IF status[b] \in {"created", "wired"}
            THEN stack' = rest /\ UNCHANGED status
            ELSE /\ status' = [status EXCEPT ![b] = "creating"]
                 /\ stack' = << [bean |-> b, stage |-> "depends",
                                 point |-> 1, cand |-> 1] >> \o rest
         /\ UNCHANGED err

-----------------------------------------------------------------------------
(* Wiring. *)

Init ==
    /\ program \in Programs
    /\ phase = "wiring"
    /\ pos = 1
    /\ status = [b \in Bean |-> "resolved"]
    /\ built = program.object
    /\ stack = << >>
    /\ err = FALSE
    /\ deps = [b \in Bean |-> {}]
    /\ known = {}
    /\ lazies = << >>
    /\ holes = {}
    /\ destroyers = << >>
    /\ destroyed = << >>
    /\ finish = [b \in Bean |-> 0]
    /\ clock = 1

WireRoot ==
    /\ phase = "wiring" /\ stack = << >> /\ ~err
    /\ pos \in DOMAIN program.roots
    /\ pos' = pos + 1
    /\ WireBean(program.roots[pos], << >>)
    /\ UNCHANGED <<program, phase, built, lazies, holes, destroyers, destroyed,
                   finish, clock>>

InFrame == phase = "wiring" /\ stack # << >> /\ ~err

HasPoint == Top.point \in DOMAIN Points(Top.bean, Top.stage)

Here == Points(Top.bean, Top.stage)[Top.point]

\* A field tagged ",lazy" is put off.
DeferField ==
    /\ InFrame /\ HasPoint
    /\ Here.lazy
    /\ lazies' = Append(lazies, [bean |-> Top.bean, point |-> Here])
    /\ stack' = << [Top EXCEPT !.point = @ + 1] >> \o Tail(stack)
    /\ UNCHANGED <<program, phase, pos, status, built, err, deps, known, holes,
                   destroyers, destroyed, finish, clock>>

\* No candidate for a required point, or several for a single one.
RefusePoint ==
    /\ InFrame /\ HasPoint
    /\ ~Here.lazy /\ ~Acceptable(Here)
    /\ err' = TRUE
    /\ UNCHANGED <<program, phase, pos, status, built, stack, deps, known, lazies,
                   holes, destroyers, destroyed, finish, clock>>

WireCandidate ==
    /\ InFrame /\ HasPoint
    /\ ~Here.lazy /\ Acceptable(Here)
    /\ Top.cand \in DOMAIN Here.cands
    /\ WireBean(Here.cands[Top.cand], << [Top EXCEPT !.cand = @ + 1] >> \o Tail(stack))
    /\ UNCHANGED <<program, phase, pos, built, lazies, holes, destroyers, destroyed,
                   finish, clock>>

\* Mutant: the loop does not move to the next point.
SetPointStuck ==
    /\ InFrame /\ HasPoint
    /\ ~Here.lazy /\ Acceptable(Here)
    /\ Top.cand \notin DOMAIN Here.cands
    /\ UNCHANGED vars

\* All candidates are wired: the argument or the field is set.
SetPoint ==
    /\ InFrame /\ HasPoint
    /\ ~Here.lazy /\ Acceptable(Here)
    /\ Top.cand \notin DOMAIN Here.cands
    /\ holes' = holes \cup (IF Top.stage = "depends" THEN {} ELSE NewHoles(Top.bean, Here))
    /\ stack' = << [Top EXCEPT !.point = @ + 1, !.cand = 1] >> \o Tail(stack)
    /\ UNCHANGED <<program, phase, pos, status, built, err, deps, known, lazies,
                   destroyers, destroyed, finish, clock>>

StageDone(stage) ==
    /\ InFrame
    /\ Top.stage = stage /\ ~HasPoint

NextStage(stage) ==
    stack' = << [Top EXCEPT !.stage = stage, !.point = 1, !.cand = 1] >> \o Tail(stack)

DependsDone ==
    /\ StageDone("depends")
    /\ NextStage("ctor")
    /\ UNCHANGED <<program, phase, pos, status, built, err, deps, known, lazies,
                   holes, destroyers, destroyed, finish, clock>>

\* Mutant: a bean counts as wired once it is constructed.
ConstructWires ==
    /\ StageDone("ctor")
    /\ program.result[Top.bean] = "ok"
    /\ built' = built \cup {Top.bean}
    /\ status' = [status EXCEPT ![Top.bean] = "wired"]
    /\ NextStage("fields")
    /\ UNCHANGED <<program, phase, pos, err, deps, known, lazies, holes, destroyers,
                   destroyed, finish, clock>>

\* The constructor is called, or the bean is an object already.
Construct ==
    /\ StageDone("ctor")
    /\ program.result[Top.bean] = "ok"
    /\ built' = built \cup {Top.bean}
    /\ status' = [status EXCEPT ![Top.bean] = "created"]
    /\ NextStage("fields")
    /\ UNCHANGED <<program, phase, pos, err, deps, known, lazies, holes, destroyers,
                   destroyed, finish, clock>>

\* The constructor returns an error, which is returned like one of its
\* arguments' (see ReturnError).
ConstructFails ==
    /\ StageDone("ctor")
    /\ program.result[Top.bean] = "err"
    /\ err' = TRUE
    /\ UNCHANGED <<program, phase, pos, status, built, stack, deps, known, lazies,
                   holes, destroyers, destroyed, finish, clock>>

\* The constructor returns nil: an error of the bean even when every
\* injection is nullable.
ConstructsNil ==
    /\ StageDone("ctor")
    /\ program.result[Top.bean] = "nil"
    /\ err' = TRUE
    /\ stack' = Tail(stack)
    /\ Finish(Top.bean)
    /\ UNCHANGED <<program, phase, pos, status, built, deps, known, lazies, holes,
                   destroyers, destroyed>>

\* The fields are set; the Init callback is called.
Initialize ==
    /\ StageDone("fields")
    /\ stack' = Tail(stack)
    /\ Finish(Top.bean)
    /\ IF Top.bean \in program.badInit
       THEN err' = TRUE /\ UNCHANGED status
       ELSE status' = [status EXCEPT ![Top.bean] = "wired"] /\ UNCHANGED err
    /\ UNCHANGED <<program, phase, pos, built, deps, known, lazies, holes,
                   destroyers, destroyed>>

\* An error returned to a constructor call is swallowed when every injection
\* is nullable: the bean counts as wired, with no value.  Any other function
\* returns it to its caller.
ReturnError ==
    /\ phase = "wiring" /\ err /\ stack # << >>
    /\ stack' = Tail(stack)
    /\ Finish(Top.bean)
    /\ IF Top.stage = "ctor" /\ program.force
       THEN err' = FALSE /\ status' = [status EXCEPT ![Top.bean] = "wired"]
       ELSE UNCHANGED <<err, status>>
    /\ UNCHANGED <<program, phase, pos, built, deps, known, lazies, holes,
                   destroyers, destroyed>>

WiringFails ==
    /\ phase = "wiring" /\ err /\ stack = << >>
    /\ phase' = "failed"
    /\ UNCHANGED <<program, pos, status, built, stack, err, deps, known, lazies,
                   holes, destroyers, destroyed, finish, clock>>

-----------------------------------------------------------------------------
(* Lazy fields, destroyers, Close. *)

StartLazy ==
    /\ phase = "wiring" /\ stack = << >> /\ ~err
    /\ pos \notin DOMAIN program.roots
    /\ phase' = "lazy"
    /\ pos' = 1
    /\ UNCHANGED <<program, status, built, stack, err, deps, known, lazies, holes,
                   destroyers, destroyed, finish, clock>>

\* A lazy field is set to what there is: getBean and getBeans wire nothing in
\* this state.
SetLazyField ==
    /\ phase = "lazy"
    /\ pos \in DOMAIN lazies
    /\ LET f == lazies[pos] IN
       IF Acceptable(f.point)
       THEN /\ holes' = holes \cup NewHoles(f.bean, f.point)
            /\ pos' = pos + 1
            /\ UNCHANGED phase
       ELSE phase' = "failed" /\ UNCHANGED <<holes, pos>>
    /\ UNCHANGED <<program, status, built, stack, err, deps, known, lazies,
                   destroyers, destroyed, finish, clock>>

\* The topological sorts of the recorded dependencies, a bean after those it
\* depends on.  beanDepMap is a Go map, so any of them may come out.
Sorts ==
    {s \in SetToSeqs(known) :
        \A i, j \in DOMAIN s : s[j] \in deps[s[i]] => j < i}

\* In the sequence s, x comes somewhere before y.
Precedes(x, y, s) == \E i, j \in DOMAIN s : i < j /\ s[i] = x /\ s[j] = y

\* The orders of the beans with a callback.
Callbacks == SetToSeqs(known \cap program.destroy)

\* Mutant: the sort is read from its front.
SortDestroyersForward ==
    /\ phase = "lazy"
    /\ pos \notin DOMAIN lazies
    /\ Sorts # {}
    /\ phase' = "refreshed"
    /\ \E s \in Sorts : \E d \in Callbacks :
          /\ \A i, j \in DOMAIN d : i < j => Precedes(d[i], d[j], s)
          /\ destroyers' = d
    /\ UNCHANGED <<program, pos, status, built, stack, err, deps, known, lazies,
                   holes, destroyed, finish, clock>>

\* getSortedDestroyers: the callbacks of the sort read from its back.
SortDestroyers ==
    /\ phase = "lazy"
    /\ pos \notin DOMAIN lazies
    /\ IF Sorts = {}
       THEN phase' = "failed" /\ UNCHANGED destroyers
       ELSE /\ phase' = "refreshed"
            /\ \E s \in Sorts : \E d \in Callbacks :
                  /\ \A i, j \in DOMAIN d : i < j => Precedes(d[j], d[i], s)
                  /\ destroyers' = d
    /\ UNCHANGED <<program, pos, status, built, stack, err, deps, known, lazies,
                   holes, destroyed, finish, clock>>

\* Close runs the callbacks in order; what one returns is only logged.
DestroyNext ==
    /\ phase = "refreshed" /\ destroyers # << >>
    /\ destroyed' = Append(destroyed, Head(destroyers))
    /\ destroyers' = Tail(destroyers)
    /\ UNCHANGED <<program, phase, pos, status, built, stack, err, deps, known,
                   lazies, holes, finish, clock>>

Closed ==
    /\ phase = "refreshed" /\ destroyers = << >>
    /\ phase' = "closed"
    /\ UNCHANGED <<program, pos, status, built, stack, err, deps, known, lazies,
                   holes, destroyers, destroyed, finish, clock>>

Terminated == phase \in {"failed", "closed"} /\ UNCHANGED vars

Step ==
    \/ WireRoot \/ DeferField \/ RefusePoint \/ WireCandidate \/ SetPoint
    \/ DependsDone \/ Construct \/ ConstructFails \/ ConstructsNil
    \/ Initialize \/ ReturnError \/ WiringFails
    \/ StartLazy \/ SetLazyField \/ SortDestroyers
    \/ DestroyNext \/ Closed

Next == Step \/ Terminated

\* Refresh and Close run on one thread and wait for nothing.
Spec == Init /\ [][Next]_vars /\ WF_vars(Step)
-----------------------------------------------------------------------------
(* Properties. *)

\* A recorded dependency finishes before the bean that depends on it, in
\* every mode and through swallowed errors.  This is why the dependency graph
\* has no cycle although field cycles are wired (injecting.go:936-939).
DependenciesFinishFirst ==
    \A x \in Bean : \A y \in deps[x] :
        finish[x] # 0 => finish[y] # 0 /\ finish[y] < finish[x]

\* What b is given before it is initialized.
Candidates(ps)  == UNION {ToSet(ps[i].cands) : i \in {j \in DOMAIN ps : ~ps[j].lazy}}
EagerTargets(b) == ToSet(program.depends[b]) \cup Candidates(program.ctor[b])
                                            \cup Candidates(program.fields[b])

\* What b needs, itself or through other beans: the beans in every set that
\* has the targets of b and of its own members.
Needs(b) ==
    {x \in Bean :
        \A S \in SUBSET Bean :
            (EagerTargets(b) \subseteq S /\ \A c \in S : EagerTargets(c) \subseteq S)
                => x \in S}

\* A bean is initialized only after everything it was given is, unless the two
\* need each other.
InitializedInOrder ==
    ~program.force =>
        \A x \in Bean : status[x] = "wired" =>
            \A y \in EagerTargets(x) :
                status[y] = "wired" \/ x \in Needs(y)

\* No eager injection hands out a bean whose value does not exist yet.
EagerInjectionsAreBuilt == ~program.force => \A h \in holes : h.lazy

\* A bean is destroyed before what was injected into it, unless the two need
\* each other.
DestroyedInReverse ==
    (phase = "closed" /\ ~program.force) =>
        \A x \in known \cap program.destroy :
            \A y \in EagerTargets(x) \cap program.destroy :
                Precedes(x, y, destroyed) \/ x \in Needs(y)

\* Whatever the beans need from each other, Refresh returns.
RefreshReturns == phase = "wiring" ~> phase \in {"refreshed", "failed", "closed"}

=============================================================================
