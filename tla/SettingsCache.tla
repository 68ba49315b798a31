----------------------------- MODULE SettingsCache -----------------------------
(***************************************************************************)
(* The settings document of a gym and the cache in front of it             *)
(* (internal/repository/settings.go, settings_cached.go,                   *)
(* internal/cache/cache.go; internal/handler/settings.go).  A document is  *)
(* one JSON column: a palette preset loads all of it, changes two sections  *)
(* and writes all of it back, a PUT brings all of it.  Each instance of    *)
(* the server has a cache of its own.                                      *)
(***************************************************************************)
EXTENDS Naturals, FiniteSets

CONSTANTS
    Instances,
    Editors,       \* requests in flight
    Sections,      \* grading, circuits, hold colors, display, sessions
    Palette,       \* the sections a preset sets: circuits and hold colors
    MaxEdits,      \* bound on writes
    NotCached

ASSUME SettingsAssumption ==
    Palette \subseteq Sections /\ Instances # {} /\ MaxEdits \in Nat

VARIABLES
    document,   \* settings_json; sections hold the number of their last edit
    cached,     \* each instance's cache entry
    editor,     \* the requests
    own,        \* history: version each instance last wrote and invalidated
    late,       \* history: the entry was filled after a newer invalidation
    overtaken,  \* history: requests whose copy a write may have overtaken
    behind,     \* history: instances whose entry a write may have overtaken
    accepted,   \* history: the last edit of each section
    stale       \* history: a preset was written over an overtaken copy

copyVars == <<own, late, overtaken, behind>>
settingsVars == <<document, cached, editor, copyVars, accepted, stale>>

Default == 0  \* a section as DefaultLocationSettings has it

Document == [version : 0 .. MaxEdits, section : [Sections -> 0 .. MaxEdits + 1]]

Defaults == [version |-> 0, section |-> [s \in Sections |-> Default]]

\* A gym whose sections have all been configured.
Configured == [version |-> 0, section |-> [s \in Sections |-> 1]]

Out == [op |-> "none", at |-> "none", on |-> CHOOSE i \in Instances : TRUE,
        base |-> Defaults]

SettingsTypeOK ==
    /\ document \in Document
    /\ cached \in [Instances -> Document \cup {NotCached}]
    /\ editor \in [Editors -> [op : {"none", "view", "preset", "replace"},
                               at : {"none", "load", "fill", "write", "invalidate"},
                               on : Instances, base : Document]]
    /\ own \in [Instances -> 0 .. MaxEdits]
    /\ late \in [Instances -> BOOLEAN]
    /\ overtaken \subseteq Editors /\ behind \subseteq Instances
    /\ accepted \in [Sections -> 0 .. MaxEdits + 1]
    /\ stale \in BOOLEAN

SettingsInit ==
    /\ document = Configured
    /\ cached = [i \in Instances |-> NotCached]
    /\ editor = [e \in Editors |-> Out]
    /\ own = [i \in Instances |-> 0] /\ late = [i \in Instances |-> FALSE]
    /\ overtaken = {} /\ behind = {}
    /\ accepted = Configured.section
    /\ stale = FALSE

-----------------------------------------------------------------------------
Goes(e, op, step, i, base) ==
    editor' = [editor EXCEPT ![e] =
        IF step = "none" THEN Out
        ELSE [op |-> op, at |-> step, on |-> i, base |-> base]]

\* What a handler does once it has its document: it answers, or the edit goes on.
Onward(op) == IF op = "view" THEN "none" ELSE "write"

\* GetLocationSettings, ApplyPalettePreset.
StartReading(e, i, op) ==
    /\ editor[e] = Out
    /\ Goes(e, op, "load", i, Defaults)
    /\ UNCHANGED <<document, cached, copyVars, accepted, stale>>

\* UpdateLocationSettings over the API brings a whole document.
StartReplace(e, i) ==
    /\ editor[e] = Out
    /\ Goes(e, "replace", "write", i, Defaults)
    /\ UNCHANGED <<document, cached, copyVars, accepted, stale>>

\* A writer of this instance has yet to invalidate.
Pending(i) == \E e \in Editors : editor[e].at = "invalidate" /\ editor[e].on = i

\* GetLocationSettings of the cached repository: the cache, or the database; a
\* failed read ends the request.
GetSettings(e) ==
    LET r == editor[e] IN
    /\ r.at = "load"
    /\ \/ /\ cached[r.on] # NotCached
          /\ Goes(e, r.op, Onward(r.op), r.on, cached[r.on])
          /\ overtaken' = IF r.op = "preset" /\ (r.on \in behind \/ Pending(r.on))
                          THEN overtaken \cup {e} ELSE overtaken
       \/ /\ cached[r.on] = NotCached
          /\ Goes(e, r.op, "fill", r.on, document) \/ Goes(e, r.op, "none", r.on, Defaults)
          /\ UNCHANGED overtaken
    /\ UNCHANGED <<document, cached, own, late, behind, accepted, stale>>

\* Cache.Set, which does not know of an Invalidate since the read.
Fill(e) ==
    LET r == editor[e] IN
    /\ r.at = "fill"
    /\ cached' = [cached EXCEPT ![r.on] = r.base]
    /\ late' = [late EXCEPT ![r.on] = r.base.version < own[r.on]]
    /\ behind' = IF e \in overtaken THEN behind \cup {r.on} ELSE behind \ {r.on}
    /\ Goes(e, r.op, Onward(r.op), r.on, r.base)
    /\ overtaken' = IF r.op = "view" THEN overtaken \ {e} ELSE overtaken
    /\ UNCHANGED <<document, own, accepted, stale>>

\* The sections a request sets.
Touched(op) == IF op = "replace" THEN Sections ELSE Palette

\* Mutant of Edited: what was not asked for is dropped.
EditedAlone(base, sections, number) ==
    [s \in Sections |-> IF s \in sections THEN number ELSE Default]

Edited(base, sections, number) ==
    [s \in Sections |-> IF s \in sections THEN number ELSE base.section[s]]

\* The requests that hold a copy of the document.
HasCopy(e) == editor[e].at = "fill" \/ (editor[e].op = "preset" /\ editor[e].at = "write")

\* The UPDATE of the whole column.  It overtakes the copies that requests hold and
\* the entries of other instances; if its answer is lost the request ends there,
\* and this instance keeps its entry too.
Write(e) ==
    LET r == editor[e]
        version == document.version + 1 IN
    /\ r.at = "write"
    /\ document.version < MaxEdits
    /\ document' = [version |-> version,
                    section |-> Edited(r.base, Touched(r.op), version + 1)]
    /\ accepted' = [s \in Sections |-> IF s \in Touched(r.op) THEN version + 1
                                       ELSE accepted[s]]
    /\ stale' = (stale \/ e \in overtaken)
    /\ overtaken' = {d \in Editors \ {e} : HasCopy(d)}
    /\ \/ /\ Goes(e, r.op, "invalidate", r.on, document')
          /\ behind' = {i \in Instances : i \in behind \/ (i # r.on /\ cached[i] # NotCached)}
       \/ /\ Goes(e, r.op, "none", r.on, Defaults)
          /\ behind' = {i \in Instances : i \in behind \/ cached[i] # NotCached}
    /\ UNCHANGED <<cached, own, late>>

WriteFails(e) ==
    LET r == editor[e] IN
    /\ r.at = "write"
    /\ Goes(e, r.op, "none", r.on, Defaults)
    /\ overtaken' = overtaken \ {e}
    /\ UNCHANGED <<document, cached, own, late, behind, accepted, stale>>

\* Mutant of Invalidated: the key is not removed.
InvalidatedNot(i) == cached

Invalidated(i) == [cached EXCEPT ![i] = NotCached]

\* Only this instance's cache learns of the update; the answer is read again.
Invalidate(e) ==
    LET r == editor[e] IN
    /\ r.at = "invalidate"
    /\ cached' = Invalidated(r.on)
    /\ own' = [own EXCEPT ![r.on] = IF @ < r.base.version THEN r.base.version ELSE @]
    /\ late' = [late EXCEPT ![r.on] = FALSE]
    /\ behind' = behind \ {r.on}
    /\ Goes(e, "view", "load", r.on, Defaults)
    /\ UNCHANGED <<document, overtaken, accepted, stale>>

\* Cache.Get drops an entry past its time-to-live.
Expire(i) ==
    /\ cached[i] # NotCached
    /\ cached' = [cached EXCEPT ![i] = NotCached]
    /\ behind' = behind \ {i}
    /\ UNCHANGED <<document, editor, own, late, overtaken, accepted, stale>>

SettingsNext ==
    \/ \E i \in Instances : Expire(i)
    \/ \E e \in Editors :
          \/ \E i \in Instances :
                \/ StartReplace(e, i)
                \/ \E op \in {"view", "preset"} : StartReading(e, i, op)
          \/ GetSettings(e) \/ Fill(e) \/ Write(e) \/ WriteFails(e) \/ Invalidate(e)

SettingsSpec == SettingsInit /\ [][SettingsNext]_settingsVars

-----------------------------------------------------------------------------
\* An instance serves a document older than its own last update only when a
\* reader that had missed the cache before filled it after (UpdateLocationSettings
\* against GetLocationSettings of the cached repository).
OwnEditsAreRead ==
    \A i \in Instances :
        cached[i] # NotCached /\ ~late[i] => cached[i].version >= own[i]

\* Any other entry is the stored document, unless its writer has yet to invalidate,
\* or a write overtook it that its instance was not told of: one by another instance,
\* one whose answer was lost, or one that came between the read and the Fill.
EntriesAreCurrent ==
    \A i \in Instances :
        cached[i] # NotCached /\ i \notin behind /\ ~Pending(i) => cached[i] = document

\* The last edit of every section is in the document: what is lost is lost to a PUT,
\* which brings every section, or to a preset whose copy was overtaken, while it was
\* in hand or in such an entry (ApplyPalettePreset, UpdateLocationSettings).
EditsSurvive == ~stale => document.section = accepted
=============================================================================
