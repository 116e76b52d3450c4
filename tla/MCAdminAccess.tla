--------------------------- MODULE MCAdminAccess ---------------------------
EXTENDS AdminAccess
CONSTANTS e1, e2

\* A root, the authority below it and its successor of the same name: the first lapses,
\* the second is not valid yet at the start.
CA(subject, key, by, from, until) ==
  [subject |-> subject, issuer |-> "root", key |-> key, by |-> by, serial |-> 0,
   from |-> from, until |-> until, employee |-> Nil, named |-> FALSE, mail |-> {}]
Root == CA("root", "kr", "kr", 0, 9)
OldCA == CA("ca", "k1", "kr", 0, 1)
NewCA == CA("ca", "k2", "kr", 1, 9)
Card(key, by, serial, until, employee, mail) ==
  [subject |-> key, issuer |-> "ca", key |-> key, by |-> by, serial |-> serial,
   from |-> 0, until |-> until, employee |-> employee, named |-> TRUE, mail |-> mail]
\* Cards of the old and of the new authority; one that lapses, one without an address.
MCCards == {Card("c1", "k1", 1, 9, e1, {"rfc822"}), Card("c2", "k2", 2, 9, e1, {"upn"}),
            Card("c3", "k2", 3, 1, e2, {"upn"}), Card("c4", "k1", 4, 9, e1, {})}
MCBundles == {<<Root, OldCA>>, <<NewCA, Root>>, <<Root, OldCA, NewCA>>, <<OldCA>>}
MCLists == {{e1}, {e1, e2}}
=============================================================================
