---------------------------- MODULE MCSupervisor ----------------------------
(***************************************************************************)
(* Small instances of Supervisor for TLC. Requesters: root and two agent   *)
(* uids; two sessions; a session-scoped, a lease-scoped and a never-reused *)
(* profile. Each configuration picks the requests, the faults and the      *)
(* bounds that make its own question interesting.                          *)
(***************************************************************************)
EXTENDS Supervisor, TLC

CONSTANTS h1, h2, loop, root, u1, u2, s1, s2

Symmetry == Permutations({h1, h2})

profile(reuse, maxLease) == [reuse |-> reuse, net |-> TRUE, runtime |-> TRUE, maxLease |-> maxLease]

\* DefaultConfig in small: lease lengths 2 and 1 seconds, or unlimited.
MCProfiles ==
  [search |-> profile("session", 2), observer |-> profile("lease", 1), oneshot |-> profile("never", 0)]

grant(profiles, maxWorkers, maxLease) ==
  [profiles |-> profiles, maxWorkers |-> maxWorkers, maxLease |-> maxLease]

AllProfiles == DOMAIN MCProfiles

\* One running worker per session, whoever asks. The limit on the lease length
\* is the grant's for u1, the profile's for u2, and there may be none for root.
MCGrants ==
  root :> grant(AllProfiles, 1, 0) @@ u1 :> grant(AllProfiles, 1, 1) @@ u2 :> grant({"observer"}, 1, 0)

ensure(peer, session, name, seconds) ==
  [peer |-> peer, session |-> session, profile |-> name, seconds |-> seconds]

end(peer, session) == [peer |-> peer, session |-> session]

\* Three requesters, two of them in one session, with workers of every reuse
\* policy, one of them asked for from two sessions.
CoreEnsures ==
  {ensure(u1, s1, "search", 0), ensure(u2, s1, "observer", 0), ensure(u2, s2, "observer", 0),
   ensure(root, s1, "oneshot", 0)}

\* A race for the budget of one session, whose workers may be ended and expire.
RaceEnsures == {ensure(root, s1, "oneshot", 1)}
RaceEnds    == {end(root, s1)}

\* Two workers that expire in the same sweep.
TwoEnsures == {ensure(u1, s1, "search", 0), ensure(u2, s2, "observer", 0)}

OneEnd == {end(u1, s1)}

=============================================================================
