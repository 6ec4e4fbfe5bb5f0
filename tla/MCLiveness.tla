----------------------------- MODULE MCLiveness -----------------------------
(***************************************************************************)
(* Liveness over every function of three blocks of a certain shape: block  *)
(* 1 defines x from the parameter p; blocks 2 and 3 may begin with a phi   *)
(* and then define a value each; every reachable block ends in a jump, a   *)
(* branch on p or a return; every read is dominated by its definition.     *)
(***************************************************************************)
EXTENDS Liveness

Ends == << {Jmp(2), Jmp(3), Br("p", 2, 3)},
           {Jmp(3), Br("p", 2, 3), Ret("p")},
           {Jmp(2), Br("p", 3, 2), Ret("p")} >>

Graph == {g \in Ends[1] \X Ends[2] \X Ends[3] :
            LET reached == ToSet(g[1].to)
            IN  {2, 3} \subseteq reached \cup UNION {ToSet(g[b].to) : b \in reached}}

Preds(g, b) == {p \in 1..3 : b \in ToSet(g[p].to)}

\* a dominates b: without a, control does not reach b.
Dominates(g, a, b) ==
    \/ a = b \/ a = 1
    \/ a = 5 - b /\ b \notin ToSet(g[1].to)

\* What is defined when control leaves block b, h2 and h3 being the phis.
Defined(g, phis, b) ==
    {"p", "x"} \cup {v \in {"h2", "y"} : Dominates(g, 2, b) /\ (v = "h2" => 2 \in phis)}
               \cup {v \in {"h3", "z"} : Dominates(g, 3, b) /\ (v = "h3" => 3 \in phis)}

PhiFor(g, phis, b) ==
    LET preds == SetToSortSeq(Preds(g, b), <)
        res == IF b = 2 THEN "h2" ELSE "h3"
    IN  IF b \notin phis THEN {<<>>}
        ELSE {<<Phi(res, preds, args)>> :
                args \in {a \in [DOMAIN preds -> {"x", "h2", "h3", "y", "z"}] :
                            \A k \in DOMAIN preds : a[k] \in Defined(g, phis, preds[k])}}

Generated ==
    UNION {UNION {
        {[params |-> <<"p">>, unlisted |-> {},
          body |-> << <<Op("add", "x", <<"p">>), g[1]>>,
                      phi2 \o <<Op("add", "y", <<a>>), g[2]>>,
                      phi3 \o <<Op("add", "z", <<b>>), IF g[3].op = "ret" THEN Ret("z") ELSE g[3]>> >>] :
            phi2 \in PhiFor(g, phis, 2), phi3 \in PhiFor(g, phis, 3),
            a \in Defined(g, phis, 2) \ {"p", "y", "z"}, b \in Defined(g, phis, 3) \ {"p", "z"}}
        : phis \in {{}, {2}, {3}}} : g \in Graph}
=============================================================================
