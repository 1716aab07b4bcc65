--------------------------- MODULE RenderAccount ---------------------------
(***************************************************************************)
(* The Render account as the lease code sees it through RenderAPI: the web *)
(* services of the owner workspace, create requests whose answer is still  *)
(* outstanding, and the namespace filter of RenderReaper.  The account is  *)
(* outside the repository; its behaviour is what torturer_provider/        *)
(* render.py and lease.py defend against.                                  *)
(***************************************************************************)
EXTENDS Naturals, FiniteSets

CONSTANTS
    ServiceId,      \* every service id the account can hold
    NoId,           \* "service_id is None"
    Foreign,        \* services of the same owner outside the run's namespace
    Stale,          \* ids an earlier lease of the same run id may have left
    LateCreates,    \* may a create whose client gave up still be accepted?
    MaxResurfaced   \* bound: deleted services the provider shows again

ASSUME AccountAssumption ==
    /\ NoId \notin ServiceId
    /\ Foreign \subseteq ServiceId
    /\ Stale \subseteq ServiceId
    /\ Foreign \cap Stale = {}
    /\ IsFiniteSet(Foreign) /\ IsFiniteSet(Stale)
    /\ LateCreates \in BOOLEAN
    /\ MaxResurfaced \in Nat

VARIABLES
    live,        \* ids the list, GET and DELETE endpoints know
    pending,     \* roles whose POST /services has not been decided
    created,     \* role -> id the provider gave the role's service, or NoId
    resurfaced,  \* services that came back after a deletion (bounded)
    unseen       \* ids that became live since a command last listed the account

account == <<live, pending, created, resurfaced, unseen>>

\* The two services of a lease bundle, in the order lease_cli builds them.
Role == {"outline", "sink"}
First(roles) == IF "outline" \in roles THEN "outline" ELSE "sink"

Id == ServiceId \cup {NoId}
Owned == {created[r] : r \in Role} \ {NoId}
Fresh == ServiceId \ (Foreign \cup Stale \cup Owned)

\* Mutant: the name prefix is not compared.
TaggedAnyName(active) == live \ active

\* RenderReaper._tagged_record: the exact owner, the run's prefix and suffix
\* shape, minus the ids the caller still uses.
Tagged(active) == live \ (Foreign \cup active)

AccountTypeOK ==
    /\ live \subseteq ServiceId
    /\ pending \subseteq Role
    /\ created \in [Role -> Id]
    /\ resurfaced \in 0..MaxResurfaced
    /\ unseen \subseteq ServiceId

AccountInit ==
    /\ \E left \in SUBSET Stale : live = Foreign \cup left
    /\ pending = {}
    /\ created = [r \in Role |-> NoId]
    /\ resurfaced = 0
    /\ unseen = {}

----------------------------------------------------------------------------
\* What the client does to the account.

PostService(r) ==
    /\ pending' = pending \cup {r}
    /\ UNCHANGED <<live, created, resurfaced, unseen>>

DeleteService(id) ==
    /\ live' = live \ {id}
    /\ UNCHANGED <<pending, created, resurfaced, unseen>>

ListServices ==
    /\ unseen' = {}
    /\ UNCHANGED <<live, pending, created, resurfaced>>

----------------------------------------------------------------------------
\* What the provider does on its own.

AcceptCreate(r) ==
    /\ r \in pending
    /\ \E id \in Fresh :
        /\ live' = live \cup {id}
        /\ created' = [created EXCEPT ![r] = id]
        /\ unseen' = unseen \cup {id}
    /\ pending' = pending \ {r}
    /\ UNCHANGED resurfaced

RejectCreate(r) ==
    /\ r \in pending
    /\ pending' = pending \ {r}
    /\ UNCHANGED <<live, created, resurfaced, unseen>>

\* "stale provider state" (lease.py): a deleted service is visible again.
Resurface(id) ==
    /\ resurfaced < MaxResurfaced
    /\ id \in Owned \ live
    /\ live' = live \cup {id}
    /\ unseen' = unseen \cup {id}
    /\ resurfaced' = resurfaced + 1
    /\ UNCHANGED <<pending, created>>

ProviderNext ==
    \/ \E r \in Role : AcceptCreate(r) \/ RejectCreate(r)
    \/ \E id \in ServiceId : Resurface(id)
=============================================================================
