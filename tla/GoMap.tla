------------------------------- MODULE GoMap -------------------------------
(***************************************************************************)
(* Go maps as functions: what an assignment and a range loop of            *)
(* assignments do to them.                                                 *)
(***************************************************************************)

\* Anything but a map differs from the function it would be.
IsMap(v) == v = [k \in DOMAIN v |-> v[k]]

\* m[key] = value
Assign(map, key, value) ==
  [k \in DOMAIN map \cup {key} |-> IF k = key THEN value ELSE map[k]]

\* for k, v := range from { m[k] = v }
AssignAll(map, from) ==
  [k \in DOMAIN map \cup DOMAIN from |->
     IF k \in DOMAIN from THEN from[k] ELSE map[k]]
=============================================================================
