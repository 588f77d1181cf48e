------------------------------- MODULE Versions -------------------------------
(* The versions an updater compares and the peers it warns about.  A version   *)
(* string is the sequence of its dot-separated parts, numbers or not, with     *)
(* what follows a "-" or "+" cut off.                                          *)
EXTENDS Integers, Sequences

CONSTANT Word  \* a part that is not a number

Version == [known : BOOLEAN, major : Nat, minor : Nat, patch : Nat]
Unknown == [known |-> FALSE, major |-> 0, minor |-> 0, patch |-> 0]

\* Missing parts count as 0; parts after the third are not looked at.
Part(s, i) == IF i <= Len(s) THEN s[i] ELSE 0
Parse(s) ==
  IF s = <<>> \/ Word \in {Part(s, 1), Part(s, 2), Part(s, 3)} THEN Unknown
  ELSE [known |-> TRUE, major |-> Part(s, 1), minor |-> Part(s, 2), patch |-> Part(s, 3)]

\* a is older than b: the first part in which they differ decides.
Older(a, b) ==
  \/ ~a.known /\ b.known
  \/ /\ a.known = b.known
     /\ \/ a.major < b.major
        \/ a.major = b.major /\ a.minor < b.minor
        \/ a.major = b.major /\ a.minor = b.minor /\ a.patch < b.patch

Compare(a, b) == IF Older(a, b) THEN -1 ELSE IF Older(b, a) THEN 1 ELSE 0
Newer(a, b) == Compare(a, b) < 0

MuchOlder(peer, self) ==
  IF ~peer.known THEN self.known
  ELSE IF peer.major # self.major THEN peer.major < self.major
  ELSE self.minor - peer.minor >= 2

\* states: what ReadAll returns, the peer's version as a string; <<>> is none.
stalePeers(states, latest) ==
  {st \in states : st.linked /\ st.version # <<>> /\ MuchOlder(Parse(st.version), latest)}
=============================================================================
