-------------------------- MODULE SupervisorPolicy --------------------------
(***************************************************************************)
(* The pure decisions of the agent supervisor (internal/supervisor/        *)
(* policy.go, the lease state machine of state.go and the helpers of       *)
(* service.go): which profiles a requester may ask for, how long a lease   *)
(* may last, which lease may be reused, which state changes are legal.     *)
(*                                                                         *)
(* A profile is a record [reuse, net, runtime, maxLease]: its reuse        *)
(* policy, whether NetAccess and Runtime are non-empty, and its longest    *)
(* lease (0: none stated). A grant is a record [profiles, maxWorkers,      *)
(* maxLease]; 0 is "no limit" and {} is "every profile", as in the code.   *)
(* Both registries are immutable once main() has built them.               *)
(***************************************************************************)
EXTENDS Integers, FiniteSets

CONSTANTS
  ProfileOf,   \* the profile registry: profile name -> profile
  GrantOf,     \* the grant registry: requester uid -> grant
  Root,        \* the requester with uid 0
  NoExpiry     \* the nil *time.Time of a lease that never expires

ReusePolicies == {"never", "session", "lease", "unset"}

Profile == [reuse : ReusePolicies, net : BOOLEAN, runtime : BOOLEAN, maxLease : Nat]
Grant   == [profiles : SUBSET DOMAIN ProfileOf, maxWorkers : Nat, maxLease : Nat]

ASSUME RegistryAssumption ==
  /\ \A name \in DOMAIN ProfileOf : ProfileOf[name] \in Profile
  /\ \A uid \in DOMAIN GrantOf : GrantOf[uid] \in Grant

ASSUME NoExpiryAssumption == NoExpiry \notin Nat

-----------------------------------------------------------------------------
(* Grants *)

AllowedToRequest(uid, name) ==
  /\ uid \in DOMAIN GrantOf
  /\ GrantOf[uid].profiles = {} \/ name \in GrantOf[uid].profiles

-----------------------------------------------------------------------------
(* Lease duration *)

\* A bug the lease-bound property must notice: the grant may only widen.
WiderMax(uid, name) ==
  LET p == ProfileOf[name].maxLease
      g == GrantOf[uid].maxLease
  IN  IF g > 0 /\ (p = 0 \/ g > p) THEN g ELSE p

\* The stricter of the profile's and the grant's limit, 0 if neither states one.
EffectiveMax(uid, name) ==
  LET p == ProfileOf[name].maxLease
      g == GrantOf[uid].maxLease
  IN  IF g > 0 /\ (p = 0 \/ g < p) THEN g ELSE p

LeaseAccepted(uid, name, seconds) ==
  /\ seconds >= 0
  /\ EffectiveMax(uid, name) > 0 => seconds <= EffectiveMax(uid, name)

LeaseExpiry(now, uid, name, seconds) ==
  LET s == IF seconds = 0 THEN EffectiveMax(uid, name) ELSE seconds
  IN  IF s = 0 THEN NoExpiry ELSE now + s

Overdue(lease, now) ==
  /\ lease.expires # NoExpiry
  /\ lease.expires < now

-----------------------------------------------------------------------------
(* Ownership and reuse *)

CanManageLease(peer, lease) == peer = Root \/ lease.requester = peer

\* The leases HandleEnsureWorker looks at: all of them for a lease-scoped
\* profile, the session's own ones otherwise.
IsCandidate(lease, session, name) ==
  ProfileOf[name].reuse = "lease" \/ lease.session = session

\* Bug: the policy gate and the state of the lease are forgotten.
ReusableByName(lease, session, name) == lease.profile = name

\* Every condition of CanReuse but the one that reads the clock.
Reusable(lease, session, name) ==
  LET profile == ProfileOf[name] IN
  /\ profile.reuse \in {"session", "lease"}
  /\ lease.profile = name
  /\ profile.reuse = "session" => lease.session = session
  /\ profile.net
  /\ profile.runtime
  /\ lease.state = "running"

-----------------------------------------------------------------------------
(* The lease state machine *)

LeaseStates == {"running", "released", "expired", "terminated"}

\* Bug: a lease that ended may be released once more.
TransitionBack(from, to) ==
  \/ from = "running"  /\ to \in {"released", "expired", "terminated"}
  \/ from \in {"released", "terminated"} /\ to \in {"released", "terminated"}

TransitionAllowed(from, to) ==
  \/ from = "running"  /\ to \in {"released", "expired", "terminated"}
  \/ from = "released" /\ to = "terminated"

=============================================================================
