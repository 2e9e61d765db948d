------------------------------- MODULE Routing -------------------------------
(***************************************************************************)
(* Where a grab goes (internal/routing, service/routing.go): the ordered   *)
(* rules fill the slots of an action set, the first that matches is the    *)
(* last one unless it continues, and the defaults fill what is left.       *)
(*                                                                         *)
(* A rule is [position, enabled, tree, actions, continue] where actions    *)
(* maps every slot to a target or Nil.                                     *)
(***************************************************************************)
EXTENDS Rules

CONSTANTS Slots, Default

\* A slot that is set stays as it is.
Merge(final, actions) ==
    [s \in Slots |-> IF final[s] = Nil THEN actions[s] ELSE final[s]]

ByPosition(rules) == SetToSortSeq(rules, LAMBDA a, b : a.position < b.position)

\* What is unknown at grab does not match.
Fires(rule, subject) == Eval(rule.tree, subject, "grab") = "true"

\* One rule of the walk: skipped when disabled or after a terminal match.
Consider(subject, walk, rule) ==
    IF ~rule.enabled \/ walk.stopped \/ ~Fires(rule, subject) THEN walk
    ELSE [final |-> Merge(walk.final, rule.actions), stopped |-> ~rule.continue]

Dispatch(rules, subject) ==
    LET walk == FoldLeft(LAMBDA w, r : Consider(subject, w, r),
                         [final |-> [s \in Slots |-> Nil], stopped |-> FALSE],
                         ByPosition(rules))
    IN  [s \in Slots |-> IF walk.final[s] = Nil THEN Default ELSE walk.final[s]]
=============================================================================
