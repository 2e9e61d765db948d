-------------------------------- MODULE Rules --------------------------------
(***************************************************************************)
(* Condition trees over a release (internal/rules), evaluated at one of    *)
(* three moments: search, grab, import.  A comparison over a field that is *)
(* not knowable yet is unknown, and the branches combine with Kleene's     *)
(* three-valued logic, so that a tree evaluated early never answers what   *)
(* it will later take back.                                                *)
(*                                                                         *)
(* A subject is a function from fields to values; Nil is a value that is   *)
(* not set.  A field record carries its phase and the half of the subject  *)
(* it lives in (the media probe, the want, or the release itself).         *)
(***************************************************************************)
EXTENDS Naturals, FiniteSets, Sequences, SequencesExt

CONSTANTS Nil,
          Trees,    \* the condition trees, and with a tree its branches
          Height    \* of each tree, for Eval to descend

IsLogical(c) == c.op \in {"and", "or", "not"}

\* A tree is stored as JSON: it is finite, and higher than its branches.
ASSUME TreesAssumption ==
    /\ IsFiniteSet(Trees) /\ Height \in [Trees -> 0..Cardinality(Trees)]
    /\ \A c \in Trees : IsLogical(c) =>
          /\ c.children \in Seq(Trees)
          /\ \A k \in ToSet(c.children) : Height[k] < Height[c]

Tri == {"true", "false", "unknown"}

Rank(phase) == CASE phase = "import" -> 2 [] phase = "grab" -> 1 [] OTHER -> 0

triFrom(b) == IF b THEN "true" ELSE "false"

\* Bug: what is not known is taken for false before it is negated.
NotTwoValued(t) == triFrom(t # "true")

triNot(t) == IF t = "unknown" THEN t ELSE triFrom(t = "false")

triAnd(S) == IF "false" \in S THEN "false"
             ELSE IF "unknown" \in S THEN "unknown" ELSE "true"

triOr(S) == IF "true" \in S THEN "true"
            ELSE IF "unknown" \in S THEN "unknown" ELSE "false"

-----------------------------------------------------------------------------
(***************************************************************************)
(* A subject is [value |-> a function from paths, halves |-> the assembled *)
(* halves].  The release half is always there.                             *)
(***************************************************************************)
populated(f, s) == f.half \in s.halves \cup {"release"}

Available(f, s, at) ==
    /\ Rank(f.phase) <= Rank(at)
    /\ populated(f, s)
    /\ s.value[f.path] # Nil

compare(op, left, right) ==
    CASE op = "eq"  -> triFrom(left = right)
      [] op = "ne"  -> triNot(triFrom(left = right))
      [] op = "gt"  -> triFrom(left > right)
      [] OTHER      -> "unknown"

evalComparison(c, s, at) ==
    IF Available(c.left, s, at)
    THEN compare(c.op, s.value[c.left.path], c.right)
    ELSE "unknown"

\* A branch without children, or a not with more than one, is unknown.
evalLogical(op, kids) ==
    CASE kids = <<>>                    -> "unknown"
      [] op = "and"                     -> triAnd(ToSet(kids))
      [] op = "or"                      -> triOr(ToSet(kids))
      [] op = "not" /\ Len(kids) = 1    -> triNot(kids[1])
      [] OTHER                          -> "unknown"

Eval(c, s, at) ==
    LET node[t \in Trees] ==
            IF IsLogical(t)
            THEN evalLogical(t.op, [i \in DOMAIN t.children |-> node[t.children[i]]])
            ELSE evalComparison(t, s, at)
    IN  node[c]
=============================================================================
