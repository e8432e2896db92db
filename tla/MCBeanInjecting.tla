-------------------------- MODULE MCBeanInjecting --------------------------
(***************************************************************************)
(* Small bean graphs for BeanInjecting: three beans in a ring, each of one *)
(* of the shapes below, wired from one of them or from a root that collects*)
(* two of them.                                                            *)
(***************************************************************************)
EXTENDS BeanInjecting, TLC

CONSTANTS root, a, b, c

MCBean == {root, a, b, c}
Ring   == {a, b, c}

After  == a :> b @@ b :> c @@ c :> a
Before == a :> c @@ b :> a @@ c :> b

One(x)      == [cands |-> << x >>, many |-> FALSE, nullable |-> FALSE, lazy |-> FALSE]
Optional    == [cands |-> << >>, many |-> FALSE, nullable |-> TRUE, lazy |-> FALSE]
Missing     == [cands |-> << >>, many |-> FALSE, nullable |-> FALSE, lazy |-> FALSE]
Pair(x, y)  == [cands |-> << x, y >>, many |-> TRUE, nullable |-> FALSE, lazy |-> FALSE]
Ambiguous(x, y) == [Pair(x, y) EXCEPT !.many = FALSE]
Deferred(p) == [p EXCEPT !.lazy = TRUE]

Shape(obj, dep, args, flds) == [object |-> obj, depends |-> dep, ctor |-> args, fields |-> flds]

\* What bean x may look like.
Shapes(x) ==
    LET n == After[x]
        p == Before[x]
    IN { Shape(TRUE,  << >>,   << >>,                << One(n) >>),
         Shape(FALSE, << >>,   << One(n) >>,         << >>),
         Shape(FALSE, << >>,   << Optional >>,       << Pair(p, n) >>),
         Shape(FALSE, << >>,   << Optional >>,       << >>),
         Shape(FALSE, << >>,   << One(n) >>,         << One(p) >>),
         Shape(FALSE, << p >>, << >>,                << >>),
         Shape(TRUE,  << n >>, << >>,                << Deferred(One(p)) >>) }

Base == [ force |-> FALSE,
          roots |-> << root >>,
          object |-> {root},
          depends |-> [x \in MCBean |-> << >>],
          ctor |-> [x \in MCBean |-> << >>],
          result |-> [x \in MCBean |-> "ok"],
          fields |-> [x \in MCBean |-> << >>],
          badInit |-> {},
          destroy |-> Ring ]

Assemble(s, f, r) ==
    [Base EXCEPT
       !.force = f,
       !.roots = r,
       !.object = {root} \cup {x \in Ring : s[x].object},
       !.depends = [x \in MCBean |-> IF x = root THEN << >> ELSE s[x].depends],
       !.ctor = [x \in MCBean |-> IF x = root THEN << >> ELSE s[x].ctor],
       !.fields = [x \in MCBean |-> IF x = root THEN << Pair(a, b) >> ELSE s[x].fields]]

Graphs ==
    { Assemble(a :> x @@ b :> y @@ c :> z, f, r) :
        x \in Shapes(a), y \in Shapes(b), z \in Shapes(c),
        f \in BOOLEAN, r \in { << root >>, << b, a >> } }

\* The same, with a constructor or an Init callback that fails, or with a
\* point of `root' that has no candidate or too many, or only a lazy one.
Failing ==
    { [g EXCEPT !.result = [@ EXCEPT ![b] = o]] : g \in Graphs, o \in {"err", "nil"} }

Odd ==
    UNION { { [g EXCEPT !.badInit = {a}],
              [g EXCEPT !.fields = [@ EXCEPT ![root] = << One(a), Missing >>]],
              [g EXCEPT !.fields = [@ EXCEPT ![root] = << Ambiguous(b, c) >>]],
              [g EXCEPT !.fields = [@ EXCEPT ![root] = << Deferred(Missing), One(c) >>]],
              [g EXCEPT !.fields = [@ EXCEPT ![root] = << One(c), Deferred(One(a)) >>]] } :
            g \in {h \in Graphs : h.roots = << root >>} }

MCPrograms == Graphs \cup Failing \cup Odd
=============================================================================
