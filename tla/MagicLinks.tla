------------------------------ MODULE MagicLinks ------------------------------
(***************************************************************************)
(* Magic links for one e-mail address (internal/service/magic_link.go,     *)
(* internal/repository/magic_link.go, and the handlers over them).  A      *)
(* request counts the recent links, stores one more and enqueues a mail,   *)
(* in three statements; the link is opened by a conditional UPDATE.  The   *)
(* time-to-live of a link and the rate window are the same 15 minutes, so  *)
(* the age of a link is "fresh" (valid and counted) or "old".              *)
(***************************************************************************)
EXTENDS Naturals, FiniteSets

CONSTANTS
    Requests,   \* requests for a link, and openings of one, in flight
    Links,      \* links that may be generated
    LinkLimit,  \* MagicLinkRateLimit
    MaxLost     \* bound on failed statements and lost instances

ASSUME MagicLinksAssumption ==
    /\ LinkLimit \in Nat \ {0}
    /\ MaxLost \in Nat
    /\ IsFiniteSet(Requests)

VARIABLES
    link,      \* magic_link_tokens; opened counts, as history
    mailed,    \* the links some email.magic_link job carries
    request,   \* where each request is, and the link it is about
    lost

linkVars == <<link, mailed, request, lost>>

NewLink == [stored |-> FALSE, fresh |-> TRUE, consumed |-> FALSE, opened |-> 0]

Waiting == [at |-> "idle", link |-> {}]

MagicLinksTypeOK ==
    /\ link \in [Links -> [stored : BOOLEAN, fresh : BOOLEAN,
                           consumed : BOOLEAN, opened : Nat]]
    /\ mailed \subseteq Links
    /\ request \in [Requests -> [at : {"idle", "store", "enqueue", "consume"},
                                 link : SUBSET Links]]
    /\ lost \in 0 .. MaxLost

MagicLinksInit ==
    /\ link = [l \in Links |-> NewLink]
    /\ mailed = {} /\ lost = 0
    /\ request = [r \in Requests |-> Waiting]

Recent == {l \in Links : link[l].stored /\ link[l].fresh}

Moves(r, step, about) ==
    request' = [request EXCEPT ![r] = [at |-> step, link |-> about]]

-----------------------------------------------------------------------------
\* Mutant of CountRecent: one more than the limit.
CountRecentAlso(r) ==
    /\ request[r] = Waiting
    /\ Cardinality(Recent) <= LinkLimit
    /\ Moves(r, "store", {})
    /\ UNCHANGED <<link, mailed, lost>>

\* Request counts stored links, the consumed ones too; over the limit it
\* answers 202 and does nothing.
CountRecent(r) ==
    /\ request[r] = Waiting
    /\ Cardinality(Recent) < LinkLimit
    /\ Moves(r, "store", {})
    /\ UNCHANGED <<link, mailed, lost>>

Store(r) ==
    /\ request[r].at = "store"
    /\ \E l \in Links : /\ ~link[l].stored
                        /\ link' = [link EXCEPT ![l].stored = TRUE]
                        /\ Moves(r, "enqueue", {l})
    /\ UNCHANGED <<mailed, lost>>

EnqueueMail(r) ==
    /\ request[r].at = "enqueue"
    /\ mailed' = mailed \cup request[r].link
    /\ Moves(r, "idle", {})
    /\ UNCHANGED <<link, lost>>

\* The link of a delivered mail is visited, perhaps by a mail scanner first;
\* the job queue may deliver a mail twice.
OpenLink(r) ==
    /\ request[r] = Waiting
    /\ \E l \in mailed : Moves(r, "consume", {l})
    /\ UNCHANGED <<link, mailed, lost>>

\* Mutant of Consumable: consumed_at is not looked at.
ConsumableTwice(l) == link[l].fresh

\* The WHERE clause of Consume.
Consumable(l) == ~link[l].consumed /\ link[l].fresh

\* Verify: Consume, and mintSession after it; an unusable link goes to /login.
Consume(r) ==
    LET l == CHOOSE l \in request[r].link : TRUE IN
    /\ request[r].at = "consume"
    /\ link' = IF Consumable(l)
               THEN [link EXCEPT ![l].consumed = TRUE, ![l].opened = @ + 1]
               ELSE link
    /\ Moves(r, "idle", {})
    /\ UNCHANGED <<mailed, lost>>

\* A statement fails, or the instance dies: a stored link may never be mailed,
\* a consumed one may never become a session.
Lose(r) ==
    /\ request[r] # Waiting
    /\ lost < MaxLost
    /\ lost' = lost + 1
    /\ Moves(r, "idle", {})
    /\ UNCHANGED <<link, mailed>>

Ages ==
    /\ \E l \in Recent : link' = [link EXCEPT ![l].fresh = FALSE]
    /\ UNCHANGED <<mailed, request, lost>>

MagicLinksNext ==
    \/ Ages
    \/ \E r \in Requests : \/ CountRecent(r) \/ Store(r) \/ EnqueueMail(r)
                           \/ OpenLink(r) \/ Consume(r) \/ Lose(r)

MagicLinksSpec == MagicLinksInit /\ [][MagicLinksNext]_linkVars

-----------------------------------------------------------------------------
\* A link opens one session, however often and by whomever it is visited at the
\* same time, and only a mailed one does (Consume).
LinkOpensOnce ==
    \A l \in Links : /\ link[l].opened <= 1
                     /\ link[l].opened = 1 => l \in mailed /\ link[l].consumed

\* The rate limit is passed only by requests that counted before the others
\* stored: never by more than the requests in flight together (Request).
LinkRateHolds == Cardinality(Recent) <= LinkLimit + Cardinality(Requests) - 1
=============================================================================
