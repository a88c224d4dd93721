------------------------------- MODULE JsonOrder -------------------------------
(***************************************************************************)
(* operator < of Json::Value, and what it promises of the values that a    *)
(* program of JsonValue may hold.                                          *)
(***************************************************************************)
EXTENDS JsonValue

\* By type, then by value; containers by the number of their elements, then
\* as std::map compares, key and value by key and value.
RECURSIVE Less(_, _)
Less(a, b) ==
  LET ka == Keys(a)
      kb == Keys(b)
      Before(s, p, t, q) == s < t \/ (s = t /\ Less(p, q))
      First(i) == Before(ka[i], Child(a, ka[i]), kb[i], Child(b, kb[i]))
      Second(i) == Before(kb[i], Child(b, kb[i]), ka[i], Child(a, ka[i]))
  IN CASE type_(a) # type_(b) -> type_(a) < type_(b)
       [] type_(a) \notin Containers -> value_(a) < value_(b)
       [] Len(ka) # Len(kb) -> Len(ka) < Len(kb)
       [] OTHER -> \E i \in 1..Len(ka) :
                      First(i) /\ \A j \in 1..(i - 1) : ~First(j) /\ ~Second(j)

-----------------------------------------------------------------------------
(***************************************************************************)
(* Properties.                                                             *)
(***************************************************************************)

\* operator <, == and > order all values: of any two exactly one holds, and
\* < is transitive, across types and for arrays with absent elements too, so
\* that values can be compared and sorted.
Ordered ==
  LET others == Roots \cup Seconds
      below == {p \in others : Less(p, x)}
      above == {p \in others : Less(x, p)}
  IN /\ below \cap above = {}
     /\ \A p \in others : (p \in below \cup above) # Equal(p, x)
     /\ \A p \in below, q \in above : Less(p, q)
===============================================================================
