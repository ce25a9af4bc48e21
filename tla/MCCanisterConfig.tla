-------------------------- MODULE MCCanisterConfig --------------------------
(* An instance of CanisterConfig for model checking. *)
EXTENDS CanisterConfig

CONSTANTS k1, k2, bad, manager, other, root, f1, huge, o1, broken

Entry(id, key) == [id |-> id, key |-> key]

(* Provider 1 is public, 2 and 3 are authenticated, 3 has no public URL, and
   9 does not exist. *)
MCEntries ==
  {<<>>,
   <<Entry(2, k1)>>,
   <<Entry(3, k1), Entry(2, k2), Entry(3, k2)>>,
   <<Entry(2, k2), Entry(2, None), Entry(3, None)>>,
   <<Entry(3, k1), Entry(1, k2), Entry(2, k1)>>,
   <<Entry(2, k2), Entry(9, k1)>>,
   <<Entry(2, None), Entry(3, bad)>>}

Args(demo, managers, filter, override, nodes) ==
  [demo |-> demo, managers |-> managers, filter |-> filter,
   override |-> override, nodes |-> nodes]

MCInstallArgs ==
  {Args(None, None, None, None, None),
   Args(TRUE, {manager}, None, None, None),
   Args(None, {}, f1, o1, 13),
   Args(FALSE, {other, manager}, huge, None, 13),
   Args(TRUE, {other}, None, broken, 40),
   Args(FALSE, {other}, None, o1, 40)}
=============================================================================
