------------------------------ MODULE Notices ------------------------------
(***************************************************************************)
(* What the program tells people and its own records by way of the job     *)
(* queue: notifications of quests and badges (service/quest_listeners.go,  *)
(* service/notification.go), the sign-in mail (service/magic_link.go,      *)
(* service/email.go) and the audit log (service/audit.go).  The queue is   *)
(* what JobContract promises, and each item here is one job of it; a run   *)
(* of a job may take effect and still not return nil, and then it is run   *)
(* again.  Telling is the row or the mail: the log line that Record writes *)
(* ahead of every entry does not count.                                    *)
(***************************************************************************)
EXTENDS JobContract, Integers, FiniteSets

CONSTANTS
    Notes,       \* notifications, one for each completion
    Mails,       \* mails with a sign-in link
    Changes,     \* audited changes
    MaxBegun,    \* bound: items begun
    MaxCopies,   \* bound: effects of one item
    MaxToggles   \* bound: changes of the gym's flag

ASSUME NoticesAssumption ==
    /\ Jobs = Notes \cup Mails \cup Changes
    /\ MaxCopies \in Nat
    /\ Notes \cap Mails = {} /\ Notes \cap Changes = {} /\ Mails \cap Changes = {}

VARIABLES
    stage,      \* of the request or listener behind each item
    copies,     \* rows or mails the item has made
    unread,     \* those of a notification that nobody has marked read
    again,      \* history: runs that took effect without returning nil
    givenUp,    \* history: items lost to a failure that is answered or logged
    unheard,    \* history: items lost without an answer or a log line
    setup,      \* SMTP configured; requireDelivery
    enabled,    \* the gym's progressions_enabled
    quiet,      \* history: notifications made while it was off
    toggles

noticeVars ==
    <<stage, copies, unread, again, givenUp, unheard, setup, enabled, quiet, toggles>>
allNoticeVars == <<contractVars, noticeVars>>

Zero == [i \in Jobs |-> 0]

NoticeInit ==
    /\ ContractInit
    /\ stage = [i \in Jobs |-> "none"]
    /\ copies = Zero /\ unread = Zero /\ again = Zero
    /\ givenUp = {} /\ unheard = {} /\ quiet = {}
    /\ setup \in [smtp : BOOLEAN, required : BOOLEAN]
    /\ enabled \in BOOLEAN
    /\ toggles = 0

Staged(i, s) == stage' = [stage EXCEPT ![i] = s]
Made(i) == copies' = [copies EXCEPT ![i] = @ + 1]
Room(i) == copies[i] < MaxCopies
Untold(i) ==
    stage[i] = "none" /\ Cardinality({o \in Jobs : stage[o] # "none"}) < MaxBegun

-----------------------------------------------------------------------------
(* Who enqueues.                                                           *)

\* notifyQuestCompleted and notifyBadgeEarned do not ask for the flag; they
\* drop the error of an Enqueue that fails, a client that has hung up among its
\* causes, without a log line (NotifyAsync).
Notify(i) ==
    /\ i \in Notes /\ Untold(i)
    /\ Staged(i, "told")
    /\ quiet' = IF enabled THEN quiet ELSE quiet \cup {i}
    /\ \/ Accept(i) /\ UNCHANGED unheard
       \/ unheard' = unheard \cup {i} /\ UNCHANGED contractVars
    /\ UNCHANGED <<copies, unread, again, givenUp, setup, enabled, toggles>>

\* RequestMagicLink answers an error when its mail cannot be enqueued, even
\* if it has been and only the answer of the database was lost.
AskLink(i) ==
    /\ i \in Mails /\ Untold(i)
    /\ Staged(i, "told")
    /\ \/ Accept(i) /\ givenUp' \in {givenUp, givenUp \cup {i}}
       \/ givenUp' = givenUp \cup {i} /\ UNCHANGED contractVars
    /\ UNCHANGED <<copies, unread, again, unheard, setup, enabled, quiet, toggles>>

\* A handler has committed a change that it audits next.  The client may hang
\* up at any time, and the process may stop before the audit, without a trace.
Commit(i) ==
    /\ i \in Changes /\ Untold(i)
    /\ \/ \E hungUp \in BOOLEAN :
             /\ Staged(i, IF hungUp THEN "hung up" ELSE "committed")
             /\ UNCHANGED unheard
       \/ Staged(i, "told") /\ unheard' = unheard \cup {i}
    /\ UNCHANGED <<contractVars, copies, unread, again, givenUp, setup, enabled, quiet,
                   toggles>>

\* Record enqueues under the request's context.
Record(i) ==
    /\ stage[i] \in {"committed", "hung up"}
    /\ \/ stage[i] = "committed" /\ Accept(i) /\ Staged(i, "told")
       \/ Accept(i) /\ Staged(i, "fallback")
       \/ UNCHANGED contractVars /\ Staged(i, "fallback")
    /\ UNCHANGED <<copies, unread, again, givenUp, unheard, setup, enabled, quiet, toggles>>

\* Mutant of FallbackContext: the fallback inherits the request's context, and a
\* client that hangs up costs the entry.  repo.Log leaves a line then as well, but
\* a hang-up is no failure that would excuse the loss.
FallbackRequest == {"written", "failed", "cancelled"}

\* The fallback has a context of its own: the database can still refuse.
FallbackContext == {"written", "failed"}

\* repo.Log: a statement that fails is a log line.
Fallback(i) ==
    /\ stage[i] = "fallback" /\ Room(i)
    /\ Staged(i, "told")
    /\ \E outcome \in FallbackContext :
          /\ copies' = IF outcome = "written" THEN [copies EXCEPT ![i] = @ + 1]
                       ELSE copies
          /\ givenUp' = IF outcome = "failed" THEN givenUp \cup {i} ELSE givenUp
          /\ again' = IF phase[i] = "absent" THEN again
                      ELSE [again EXCEPT ![i] = @ + 1]
    /\ UNCHANGED <<contractVars, unread, unheard, setup, enabled, quiet, toggles>>

-----------------------------------------------------------------------------
(* The handlers of the jobs.                                               *)

\* A run that has returned nil is not repeated unless the queue gave it up.
MayRun(i) == revoked[i] \/ (phase[i] = "open" /\ ~done[i])

\* The run returns nil, or it does not and will be repeated.
RunEnds(i) ==
    \/ Perform(i) /\ UNCHANGED again
    \/ /\ MayRun(i) /\ again' = [again EXCEPT ![i] = @ + 1]
       /\ UNCHANGED contractVars

\* handleCreate: the row is there whether or not the run is seen to end.
CreateNotification(i) ==
    /\ i \in Notes /\ MayRun(i) /\ Room(i)
    /\ RunEnds(i)
    /\ Made(i) /\ unread' = [unread EXCEPT ![i] = @ + 1]
    /\ UNCHANGED <<stage, givenUp, unheard, setup, enabled, quiet, toggles>>

\* Mutant of Unsent: a production without SMTP swallows the mail.
UnsentQuietly == {"nil"}

\* send without SMTP: an error in production, a log line elsewhere.
Unsent == IF setup.required THEN {"error"} ELSE {"nil"}

SendMail(i) ==
    /\ i \in Mails /\ MayRun(i) /\ Room(i)
    /\ \/ setup.smtp /\ Made(i) /\ RunEnds(i) /\ UNCHANGED givenUp
       \/ /\ ~setup.smtp /\ "nil" \in Unsent
          /\ givenUp' = IF setup.required THEN givenUp ELSE givenUp \cup {i}
          /\ Perform(i) /\ UNCHANGED <<copies, again>>
    /\ UNCHANGED <<stage, unread, unheard, setup, enabled, quiet, toggles>>

\* handleAuditJob returns nil whether or not the row could be written.
WriteAudit(i) ==
    /\ i \in Changes /\ MayRun(i) /\ Room(i)
    /\ \/ Made(i) /\ RunEnds(i) /\ UNCHANGED givenUp
       \/ /\ givenUp' = givenUp \cup {i} /\ Perform(i)
          /\ UNCHANGED <<copies, again>>
    /\ UNCHANGED <<stage, unread, unheard, setup, enabled, quiet, toggles>>

\* What the queue does by itself.
QueueStep ==
    /\ \/ \E i \in Jobs : Settle(i)
       \/ \E i \in Jobs : Revoke({i})
       \/ \E i \in Jobs, outcome \in {"open", "completed", "dead"} :
             Reconsider(i, outcome)
    /\ UNCHANGED noticeVars

-----------------------------------------------------------------------------
(* Who reads.                                                              *)

\* MarkRead takes one row, MarkAllRead every one of them.
MarkRead(i) ==
    /\ i \in Notes /\ unread[i] > 0
    /\ unread' = [unread EXCEPT ![i] = @ - 1]
    /\ UNCHANGED <<contractVars, stage, copies, again, givenUp, unheard, setup, enabled,
                   quiet, toggles>>

MarkAllRead ==
    /\ \E i \in Notes : unread[i] > 0
    /\ unread' = Zero
    /\ UNCHANGED <<contractVars, stage, copies, again, givenUp, unheard, setup, enabled,
                   quiet, toggles>>

\* SetProgressionsEnabled.
SetProgressions ==
    /\ toggles < MaxToggles
    /\ enabled' = ~enabled /\ toggles' = toggles + 1
    /\ UNCHANGED <<contractVars, stage, copies, unread, again, givenUp, unheard, setup, quiet>>

NoticeNext ==
    \/ \E i \in Jobs :
          \/ Notify(i) \/ AskLink(i) \/ Commit(i) \/ Record(i) \/ Fallback(i)
          \/ CreateNotification(i) \/ SendMail(i) \/ WriteAudit(i) \/ MarkRead(i)
    \/ QueueStep
    \/ MarkAllRead
    \/ SetProgressions

NoticeSpec == NoticeInit /\ [][NoticeNext]_allNoticeVars

-----------------------------------------------------------------------------

NoticeTypeOK ==
    /\ stage \in [Jobs -> {"none", "committed", "hung up", "fallback", "told"}]
    /\ copies \in [Jobs -> 0 .. MaxCopies] /\ unread \in [Jobs -> 0 .. MaxCopies]
    /\ \A i \in Jobs : unread[i] <= copies[i]
    /\ givenUp \subseteq Jobs /\ unheard \subseteq Jobs /\ quiet \subseteq Notes

\* What was to be told is told, or still will be, or its job is dead for an
\* operator to see, or a failure has lost it: an audit entry is not lost by a client
\* that hangs up, nor a mail by missing SMTP settings in production (Record, send).
NothingVanishes ==
    \A i \in Jobs : stage[i] = "told" =>
        \/ copies[i] > 0 \/ i \in givenUp \cup unheard
        \/ phase[i] \in {"open", "dead"}

\* The failure is answered or logged, but for what never came to the queue: a
\* notification whose Enqueue failed, and a change whose process stopped ahead of
\* its audit.  Nothing the queue took is lost without a word, and no mail
\* (NotifyAsync, RequestMagicLink, handleAuditJob).
OnlyTheUnqueuedAreUnheard ==
    \A i \in unheard : i \in Notes \cup Changes /\ phase[i] = "absent"

\* It is told once, and once more at most for each run or fallback that had
\* to be repeated, unless the queue gave a run up that went on.
CopiesAreRepeats ==
    \A i \in Jobs : revoked[i] \/ copies[i] <= 1 + again[i]

\* Through failing runs, hung-up clients and missing SMTP settings, what was to be
\* told is told, queued, dead for an operator to see, or lost to a failure that is
\* answered or logged.  A notification whose Enqueue fails, and a change whose process
\* stops before the audit, are lost without a word; nothing else is.  A second copy has
\* a repeated run or fallback as its cause (NotifyAsync, send, Record).
TellingHolds ==
    NoticeTypeOK /\ NothingVanishes /\ OnlyTheUnqueuedAreUnheard /\ CopiesAreRepeats

\* "All event listeners short-circuit when the flag is off so disabled gyms
\* produce ... no badge/quest notifications" (service/quest_listeners.go:46).
DisabledGymsAreQuiet == quiet = {}
=============================================================================
