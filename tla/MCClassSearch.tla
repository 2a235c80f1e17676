--------------------------- MODULE MCClassSearch ----------------------------
(* Model values for ClassSearch: entities a, b, c, e of the class, an      *)
(* entity up of its parent class, one of another node with the identifier  *)
(* of c, and objects that link by a list and by a single attribute: d, a.  *)
EXTENDS ClassSearch

CONSTANTS a, b, c, e, up, far, d, list, one, none, t1, t2

MCLocal   == {a, b, c, e}
MCParents == {up}
MCRemote  == {far}
MCIdOf    == [x \in {a, b, c, e, up, far} |-> IF x = far THEN c ELSE x]
MCLinkers == {a, d}
MCKeys    == {list, one}
MCLists   == {list}
Atts(x, y) == [k \in MCKeys |-> IF k = list THEN x ELSE y]
MCLinks   ==
  {[l \in MCLinkers |-> IF l = a THEN Atts(x[1], {}) ELSE Atts(x[2], x[3])] :
     x \in {<<{}, MCLocal, {}>>, <<{b}, {a, b}, {b}>>, <<{}, {b, up}, {c}>>}}
MCThings  == {t1, t2}
MCInexact == {{}, {a, b}, {b, c}, {a, b, up}, {b, c, far}}
=============================================================================
