--------------------------- MODULE BeanResolving ---------------------------
(***************************************************************************)
(* The resolving phase of the IoC container                                *)
(* (spring/gs/internal/gs_core/resolving/resolving.go, gs_cond/cond.go):   *)
(* bean definitions are registered, merged with the global ones, completed *)
(* by modules and by the methods of configuration beans, and then every    *)
(* definition is kept or deleted by its conditions.                        *)
(*                                                                         *)
(* A condition may ask for other beans, and asking resolves them, so       *)
(* resolveBean and Find call each other.  The call stack of that recursion *)
(* is explicit here: a frame per resolveBean in progress and a frame per   *)
(* condition being evaluated; `ret' is the result the callee just returned.*)
(*                                                                         *)
(* A bean selector (type and name) is modelled by what it selects: the set *)
(* of definitions isBeanMatched accepts.  The type, name and exports of a  *)
(* definition are kept only as the identities checkDuplicateBeans compares.*)
(***************************************************************************)
EXTENDS Naturals, FiniteSets, SequencesExt

CONSTANTS
    Bean,       \* bean definitions
    Identity,   \* (name, type) pairs
    Cond,       \* conditions, closed under the operands of the groups
    Nesting,    \* how deep the groups in a condition are nested
    Programs    \* what an application may register, see ProgramType

LeafOps  == {"bean", "missing", "single"}
GroupOps == {"not", "or", "and", "none"}

\* The answer of a condition that asks nothing about beans, of a module or of
\* OnFunc, is a constant, op = "const".  The function of an OnFunc is given the
\* ConditionContext too (gs_cond/cond.go:59); one that calls Find itself is not
\* modelled.
Outcome  == {"true", "false", "err"}

\* The values of BeanStatus this phase uses (gs_bean/bean.go:34-48).
Status == {"default", "resolving", "resolved", "deleted"}

ProgramType ==
    [ global   : Seq(Bean),             \* gs.Provide, in init order
      app      : SUBSET Bean,           \* app.Provide, in any order
      modules  : Seq([when : Outcome, fails : BOOLEAN, beans : Seq(Bean)]),
      children : [Bean -> Seq(Bean)],   \* methods of a configuration bean
      broken   : SUBSET Bean,           \* configurations with a bad pattern
      conds    : [Bean -> Seq(Cond)],
      id       : [Bean -> Identity],    \* own name and type
      exports  : [Bean -> SUBSET Identity] ]

ASSUME CondAssumption ==
    \A c \in Cond :
        \/ c.op = "const" /\ c.val \in Outcome
        \/ c.op \in LeafOps /\ c.sel \in SUBSET Bean
        \/ c.op \in GroupOps /\ c.args \in Seq(Cond)

\* A condition is built from its operands, which are there before it.
ASSUME NestingAssumption ==
    /\ Nesting \in [Cond -> Nat]
    /\ \A c \in Cond : c.op \in GroupOps =>
          \A i \in DOMAIN c.args : Nesting[c.args[i]] < Nesting[c]

\* The condition scanConfiguration gives a child selects the parent's identity.
ASSUME ProgramAssumption ==
    /\ Programs \subseteq ProgramType
    /\ \A S \in SUBSET Bean : [op |-> "bean", sel |-> S] \in Cond

VARIABLES
    program,    \* what this application registers; never changes
    phase,      \* how far Refresh has come
    beans,      \* the container's list of definitions
    status,     \* status of every definition
    pos,        \* loop index over modules, then over beans
    stack,      \* frames of resolveBean and Matches, innermost first
    ret         \* result of the Matches that just returned, or "none"

vars == <<program, phase, beans, status, pos, stack, ret>>

Phase == {"provide", "modules", "resolve", "done", "failed"}

BeanFrame == [kind : {"bean"}, bean : Bean, at : Nat \ {0}]
CondFrame == [kind : {"cond"}, cond : Cond, at : Nat \ {0}, found : SUBSET Bean]

TypeOK ==
    /\ program \in ProgramType
    /\ phase \in Phase
    /\ beans \in Seq(Bean)
    /\ status \in [Bean -> Status]
    /\ pos \in Nat \ {0}
    /\ stack \in Seq(BeanFrame \cup CondFrame)
    /\ ret \in Outcome \cup {"none"}

-----------------------------------------------------------------------------
(* Helpers. *)

\* isBeanMatched for the selector OnBeanID(parent.BeanID()).
Matching(id) == {b \in Bean : id \in {program.id[b]} \cup program.exports[b]}

IsChild(b) == \E p \in Bean : b \in ToSet(program.children[p])

\* A child of a configuration bean has one condition: its parent's identity
\* must be present.  Every other definition has the conditions it declares.
Conditions(b) ==
    IF IsChild(b)
    THEN LET p == CHOOSE p \in Bean : b \in ToSet(program.children[p])
         IN  << [op |-> "bean", sel |-> Matching(program.id[p])] >>
    ELSE program.conds[b]

Top == Head(stack)

\* c.Matches(ctx) is called by the function whose frames are `rest'.
Evaluate(c, rest) ==
    IF c.op = "const"
    THEN ret' = c.val /\ stack' = rest
    ELSE /\ ret' = "none"
         /\ stack' = << [kind |-> "cond", cond |-> c, at |-> 1, found |-> {}] >> \o rest

\* The function of the innermost frame returns r.
Return(r) == ret' = r /\ stack' = Tail(stack)

\* resolveBean(b) on a definition it does not skip.
EnterBean(b) ==
    /\ status' = [status EXCEPT ![b] = "resolving"]
    /\ stack' = << [kind |-> "bean", bean |-> b, at |-> 1] >> \o stack

-----------------------------------------------------------------------------
(* Registration, modules and configuration scanning. *)

Init ==
    /\ program \in Programs
    /\ phase = "provide"
    /\ beans = << >>
    /\ status = [b \in Bean |-> "default"]
    /\ pos = 1
    /\ stack = << >>
    /\ ret = "none"

Provide(b) ==
    /\ phase = "provide"
    /\ b \in program.app \ ToSet(beans)
    /\ beans' = Append(beans, b)
    /\ UNCHANGED <<program, phase, status, pos, stack, ret>>

Refresh ==
    /\ phase = "provide"
    /\ phase' = "modules"
    /\ beans' = program.global \o beans
    /\ pos' = 1
    /\ UNCHANGED <<program, status, stack, ret>>

\* One module: its property condition, then its function, which may register
\* a part of its beans and fail.
ApplyModule ==
    /\ phase = "modules"
    /\ pos \in DOMAIN program.modules
    /\ LET m == program.modules[pos] IN
       \/ /\ m.when = "true" /\ ~m.fails
          /\ beans' = beans \o m.beans
          /\ pos' = pos + 1
          /\ UNCHANGED phase
       \/ /\ m.when = "false"
          /\ pos' = pos + 1
          /\ UNCHANGED <<phase, beans>>
       \/ /\ m.when = "true" /\ m.fails
          /\ \E k \in 0..Len(m.beans) : beans' = beans \o SubSeq(m.beans, 1, k)
          /\ phase' = "failed"
          /\ UNCHANGED pos
       \/ /\ m.when = "err"
          /\ phase' = "failed"
          /\ UNCHANGED <<beans, pos>>
    /\ UNCHANGED <<program, status, stack, ret>>

\* The methods of every configuration bean in the list become definitions at
\* its end; those new definitions are not scanned themselves.
ScanConfigurations ==
    /\ phase = "modules"
    /\ pos \notin DOMAIN program.modules
    /\ \/ /\ ToSet(beans) \cap program.broken # {}
          /\ phase' = "failed"
          /\ UNCHANGED <<beans, pos>>
       \/ /\ ToSet(beans) \cap program.broken = {}
          /\ beans' = beans \o FlattenSeq([i \in DOMAIN beans |-> program.children[beans[i]]])
          /\ phase' = "resolve"
          /\ pos' = 1
    /\ UNCHANGED <<program, status, stack, ret>>

-----------------------------------------------------------------------------
(* resolveBean. *)

\* Mutant: the loop does not advance past a definition it skips.
ResolveNextStuck ==
    /\ phase = "resolve" /\ stack = << >>
    /\ pos \in DOMAIN beans
    /\ IF status[beans[pos]] \in {"resolving", "resolved"}
       THEN UNCHANGED <<pos, status, stack>>
       ELSE pos' = pos + 1 /\ EnterBean(beans[pos])
    /\ UNCHANGED <<program, phase, beans, ret>>

\* The loop of resolveBeans.  A definition that is already resolved is
\* skipped; one that a Find has deleted is below StatusResolving, so it is
\* evaluated again.
ResolveNext ==
    /\ phase = "resolve" /\ stack = << >>
    /\ pos \in DOMAIN beans
    /\ pos' = pos + 1
    /\ IF status[beans[pos]] \in {"resolving", "resolved"}
       THEN UNCHANGED <<status, stack>>
       ELSE EnterBean(beans[pos])
    /\ UNCHANGED <<program, phase, beans, ret>>

InBean == phase = "resolve" /\ stack # << >> /\ Top.kind = "bean" /\ ret # "err"

MatchNext ==
    /\ InBean /\ ret # "false"
    /\ Top.at \in DOMAIN Conditions(Top.bean)
    /\ Evaluate(Conditions(Top.bean)[Top.at], << [Top EXCEPT !.at = @ + 1] >> \o Tail(stack))
    /\ UNCHANGED <<program, phase, beans, status, pos>>

Accept ==
    /\ InBean /\ ret # "false"
    /\ Top.at \notin DOMAIN Conditions(Top.bean)
    /\ status' = [status EXCEPT ![Top.bean] = "resolved"]
    /\ Return("none")
    /\ UNCHANGED <<program, phase, beans, pos>>

Reject ==
    /\ InBean /\ ret = "false"
    /\ status' = [status EXCEPT ![Top.bean] = "deleted"]
    /\ Return("none")
    /\ UNCHANGED <<program, phase, beans, pos>>

-----------------------------------------------------------------------------
(* Matches of a group and of a bean condition. *)

InCond(ops) ==
    /\ phase = "resolve" /\ stack # << >> /\ ret # "err"
    /\ Top.kind = "cond" /\ Top.cond.op \in ops

\* The operand's result that ends a group, and what the group then returns.
StopsAt(op)   == IF op = "and" THEN "false" ELSE "true"
OnStop(op)    == IF op = "or" THEN "true" ELSE "false"
OnExhaust(op) == IF op = "or" THEN "false" ELSE "true"

GroupStep ==
    /\ InCond(GroupOps)
    /\ LET c == Top.cond IN
       IF ret = StopsAt(c.op) THEN Return(OnStop(c.op))
       ELSE IF Top.at \in DOMAIN c.args
            THEN Evaluate(c.args[Top.at], << [Top EXCEPT !.at = @ + 1] >> \o Tail(stack))
            ELSE Return(OnExhaust(c.op))
    /\ UNCHANGED <<program, phase, beans, status, pos>>

\* Mutant: definitions on the path are found, themselves included.
SkippedDeletedOnly(b, c) == status[b] = "deleted" \/ b \notin c.sel

\* A definition Find passes over: on the path to this Find, deleted, or not
\* selected.
Skipped(b, c) == status[b] \in {"resolving", "deleted"} \/ b \notin c.sel

\* Mutant: Find does not resolve the definitions it finds.
FindStepUnresolved ==
    /\ InCond(LeafOps)
    /\ Top.at \in DOMAIN beans
    /\ LET b == beans[Top.at] IN
       stack' = << [Top EXCEPT !.at = @ + 1,
                               !.found = IF Skipped(b, Top.cond)
                                         THEN @ ELSE @ \cup {b}] >> \o Tail(stack)
    /\ UNCHANGED <<program, phase, beans, status, pos, ret>>

\* One turn of the loop of Find.  A definition without a decision is resolved
\* first; the same turn is then taken again with the decision made.
FindStep ==
    /\ InCond(LeafOps)
    /\ Top.at \in DOMAIN beans
    /\ LET b == beans[Top.at] IN
       IF status[b] = "default" /\ ~Skipped(b, Top.cond)
       THEN EnterBean(b)
       ELSE /\ stack' = << [Top EXCEPT !.at = @ + 1,
                                       !.found = IF Skipped(b, Top.cond)
                                                 THEN @ ELSE @ \cup {b}] >> \o Tail(stack)
            /\ UNCHANGED status
    /\ UNCHANGED <<program, phase, beans, pos, ret>>

\* Mutant: OnMissingBean tolerates one other definition.
MatchedLoosely(op, found) ==
    CASE op = "bean"    -> found # {}
      [] op = "missing" -> Cardinality(found) < 2
      [] op = "single"  -> Cardinality(found) = 1

Matched(op, found) ==
    CASE op = "bean"    -> found # {}
      [] op = "missing" -> found = {}
      [] op = "single"  -> Cardinality(found) = 1

FindReturn ==
    /\ InCond(LeafOps)
    /\ Top.at \notin DOMAIN beans
    /\ Return(IF Matched(Top.cond.op, Top.found) THEN "true" ELSE "false")
    /\ UNCHANGED <<program, phase, beans, status, pos>>

-----------------------------------------------------------------------------
(* The end of Refresh. *)

\* An error is handed up through every frame, none of which handles it.
Abort ==
    /\ phase = "resolve" /\ ret = "err"
    /\ phase' = "failed"
    /\ stack' = << >>
    /\ ret' = "none"
    /\ UNCHANGED <<program, beans, status, pos>>

Active == {b \in ToSet(beans) : status[b] # "deleted"}

\* checkDuplicateBeans walks the own and exported identities of the active
\* definitions; one that is met twice is an error.
Duplicated ==
    \/ \E b \in Active : program.id[b] \in program.exports[b]
    \/ \E b, c \in Active :
          /\ b # c
          /\ ({program.id[b]} \cup program.exports[b])
               \cap ({program.id[c]} \cup program.exports[c]) # {}

CheckDuplicateBeans ==
    /\ phase = "resolve" /\ stack = << >> /\ ret # "err"
    /\ pos \notin DOMAIN beans
    /\ phase' = IF Duplicated THEN "failed" ELSE "done"
    /\ UNCHANGED <<program, beans, status, pos, stack, ret>>

\* Refresh has returned; a second call is refused without any effect.
Terminated == phase \in {"done", "failed"} /\ UNCHANGED vars

Step ==
    \/ ApplyModule \/ ScanConfigurations
    \/ ResolveNext \/ MatchNext \/ Accept \/ Reject
    \/ GroupStep \/ FindStep \/ FindReturn
    \/ Abort \/ CheckDuplicateBeans

Next == (\E b \in Bean : Provide(b)) \/ Refresh \/ Step \/ Terminated

\* Refresh runs on the caller's thread and waits for nothing.
Spec == Init /\ [][Next]_vars /\ WF_vars(Step)

-----------------------------------------------------------------------------
(* Properties. *)

\* Even when conditions depend on each other in a cycle, a decision never
\* outlives its evidence: an OnBean that held is witnessed by another
\* definition that is active for good, and a definition whose conditions are
\* all OnMissingBean is deleted only for such a witness.
Witnessed(b, c) == \E w \in c.sel \ {b} : status[w] = "resolved"

DecisionsAreWitnessed ==
    \A b \in Bean :
        /\ status[b] = "resolved" =>
              \A i \in DOMAIN Conditions(b) :
                  Conditions(b)[i].op = "bean" => Witnessed(b, Conditions(b)[i])
        /\ (/\ status[b] = "deleted"
            /\ \A i \in DOMAIN Conditions(b) : Conditions(b)[i].op = "missing")
           => \E i \in DOMAIN Conditions(b) : Witnessed(b, Conditions(b)[i])

\* Defaults that yield to each other, OnMissingBean on a selector that selects
\* all of them, leave exactly one active, whatever the order of registration.
Yields(b, S) == Conditions(b) = << [op |-> "missing", sel |-> S] >>

OneDefaultSurvives ==
    phase = "done" =>
        \A S \in SUBSET Bean :
            LET group == S \cap ToSet(beans) IN
            (group # {} /\ \A b \in group : Yields(b, S))
                => Cardinality(group \cap Active) = 1

\* What conditions mean for definition b when the definitions in A are active
\* and `holds' is the meaning of the operands.  A definition never finds itself.
Truth(holds, c, b, A) ==
    LET hits == (c.sel \ {b}) \cap A
        some == \E i \in DOMAIN c.args : holds[c.args[i]]
        all  == \A i \in DOMAIN c.args : holds[c.args[i]]
    IN CASE c.op = "const"           -> c.val = "true"
         [] c.op = "bean"            -> hits # {}
         [] c.op = "missing"         -> hits = {}
         [] c.op = "single"          -> Cardinality(hits) = 1
         [] c.op = "or"              -> some
         [] c.op = "and"             -> all
         [] c.op \in {"not", "none"} -> ~some

Meaning(b, A) == LET holds[c \in Cond] == Truth(holds, c, b, A) IN holds

\* The definitions a condition, and those a definition's conditions ask for.
Asked[c \in Cond] ==
    CASE c.op = "const" -> {}
      [] c.op \in LeafOps -> c.sel
      [] c.op \in GroupOps -> UNION {Asked[c.args[i]] : i \in DOMAIN c.args}

AsksFor(b) == (UNION {Asked[Conditions(b)[i]] : i \in DOMAIN Conditions(b)}) \ {b}

\* No definition's conditions come back to it through other definitions.
Stratified == \A X \in SUBSET Bean : X # {} => \E b \in X : AsksFor(b) \cap X = {}

Consistent(A) ==
    A = {b \in ToSet(beans) : \A i \in DOMAIN Conditions(b) : Meaning(b, A)[Conditions(b)[i]]}

\* When conditions are stratified, the outcome is the one set of definitions
\* that agrees with all of them, whatever the order of registration; and no
\* decision taken on the way, by the loop or inside a Find, differs from it.
StratifiedOutcome ==
    (phase \in {"resolve", "done"} /\ Stratified) =>
        \E A \in SUBSET ToSet(beans) :
            /\ Consistent(A)
            /\ \A b \in ToSet(beans) : /\ status[b] = "resolved" => b \in A
                                       /\ status[b] = "deleted" => b \notin A

\* However the conditions refer to each other, resolving ends.
ResolvingTerminates == phase = "modules" ~> phase \in {"done", "failed"}
=============================================================================
