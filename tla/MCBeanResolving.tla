-------------------------- MODULE MCBeanResolving --------------------------
(***************************************************************************)
(* Small applications for BeanResolving.                                   *)
(***************************************************************************)
EXTENDS BeanResolving

CONSTANTS b1, b2, b3, b4

MCBean == {b1, b2, b3, b4}
MCIdentity == {"t1", "t2", "t3", "t4", "shared"}

OnConst(v)   == [op |-> "const", val |-> v]
OnBean(S)    == [op |-> "bean", sel |-> S]
OnMissing(S) == [op |-> "missing", sel |-> S]
OnSingle(S)  == [op |-> "single", sel |-> S]
Group(o, cs) == [op |-> o, args |-> cs]

Three == {b1, b2, b3}

Simple ==
    { OnConst(v) : v \in Outcome }
    \cup { OnBean(S) : S \in SUBSET MCBean }
    \cup { OnMissing(S) : S \in SUBSET Three }
    \cup { OnSingle(S) : S \in SUBSET Three }

Nested ==
    { Group("not", << OnBean({b3}) >>),
      Group("or", << OnBean({b1}), OnMissing({b2}) >>),
      Group("and", << OnMissing({b1, b3}), OnConst("true") >>),
      Group("none", << OnBean({b2}), OnSingle({b1, b3}) >>) }

MCCond == Simple \cup Nested
    \cup { Group("and", << Group("or", << OnBean({b1}), OnMissing({b2}) >>), OnConst("err") >>) }

MCNesting[c \in MCCond] ==
    IF c.op \in GroupOps THEN 1 + Max({MCNesting[c.args[i]] : i \in DOMAIN c.args}) ELSE 0

\* What one of three definitions may declare.
Declared ==
    { << >>, << OnBean({b1}) >>, << OnBean({b3}) >>, << OnMissing(Three) >>,
      << OnMissing({b1, b2}) >>, << OnSingle({b1, b2}), OnMissing({b3}) >> }
    \cup { << c >> : c \in Nested }

Plain == [ global   |-> << >>,
           app      |-> Three,
           modules  |-> << >>,
           children |-> [b \in MCBean |-> << >>],
           broken   |-> {},
           conds    |-> [b \in MCBean |-> << >>],
           id       |-> (b1 :> "t1" @@ b2 :> "t2" @@ b3 :> "t3" @@ b4 :> "t4"),
           exports  |-> [b \in MCBean |-> {}] ]

\* Every combination of conditions on three definitions in every order.
Combinations ==
    { [Plain EXCEPT !.conds = (b1 :> x @@ b2 :> y @@ b3 :> z @@ b4 :> << >>)] :
        x \in Declared, y \in Declared, z \in Declared }

\* A configuration bean b1 with child b4, one of the two possibly deleted; a
\* module that may be skipped or fail; a global definition; two definitions
\* of one identity; a bad pattern; a condition that returns an error.
Assembled ==
    { [Plain EXCEPT
         !.global   = << b2 >>,
         !.app      = {b1},
         !.modules  = << [when |-> w, fails |-> f, beans |-> << b3 >>] >>,
         !.children = [@ EXCEPT ![b1] = << b4 >>],
         !.broken   = br,
         !.conds    = [@ EXCEPT ![b1] = x, ![b2] = y],
         !.exports  = [@ EXCEPT ![b2] = ex, ![b3] = {"shared"}]] :
        w \in Outcome, f \in BOOLEAN, br \in {{}, {b1}},
        x \in { << OnMissing({b2}) >>, << OnConst("true"), OnBean({b3}) >> },
        y \in { << >>, << OnBean({b4}) >>, << OnConst("false") >>,
                << Group("and", << Group("or", << OnBean({b1}), OnMissing({b2}) >>),
                                   OnConst("err") >>) >> },
        ex \in { {}, {"shared"}, {"t2"} } }

MCPrograms == Combinations \cup Assembled
=============================================================================
