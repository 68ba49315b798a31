-------------------------------- MODULE RowSets --------------------------------
(***************************************************************************)
(* Sets of rows that belong to one owner: the org tags of a route and the   *)
(* distribution targets of a gym, replaced as a whole (DELETE and INSERT in *)
(* one READ COMMITTED transaction), the community's tag votes and the       *)
(* follows, changed row by row.  A key stands for a row.                   *)
(***************************************************************************)
EXTENDS Naturals, FiniteSets

CONSTANTS
    Savers,      \* requests in flight
    People,      \* climbers that vote and follow
    Keys,        \* tags, or grades of the targets
    MaxSaves     \* bound on the transactions begun

ASSUME RowSetsAssumption == MaxSaves \in Nat

VARIABLES
    family,      \* which set this is, chosen at the start
    rows,        \* committed rows
    tags,        \* the org's tags
    save,        \* request -> transaction
    saves,
    wanted,      \* history: the set the last committed replacement asked for
    submitted,   \* history: every such set
    crossed      \* history: two replacements, or one and a tag's removal, overlapped

setVars == <<family, rows, tags, save, saves, wanted, submitted, crossed>>

-----------------------------------------------------------------------------
Families == {"tags", "targets", "votes", "follows"}
NoSave == [op |-> "none"]
Pairs == IF family = "votes" THEN People \X Keys ELSE People \X People
InTx(s) == save[s] # NoSave /\ save[s].step # "asked"
Others(s) == {o \in Savers \ {s} : InTx(o)}

RowSetsTypeOK ==
    /\ family \in Families
    /\ rows \subseteq IF family \in {"tags", "targets"} THEN Keys ELSE Pairs
    /\ tags \subseteq Keys
    /\ \A s \in Savers : save[s] # NoSave =>
          /\ save[s].op \in {"replace", "delete"} /\ save[s].asked \subseteq Keys
          /\ save[s].gone \subseteq Keys /\ save[s].new \subseteq Keys
          /\ save[s].step \in {"asked", "wiping", "wiped", "filled"}
    /\ saves \in 0 .. MaxSaves /\ wanted \subseteq Keys /\ submitted \subseteq SUBSET Keys /\ crossed \in BOOLEAN

RowSetsInit ==
    /\ family \in Families
    /\ rows \in IF family \in {"tags", "targets"} THEN SUBSET Keys ELSE {{}}
    /\ tags = Keys
    /\ save = [s \in Savers |-> NoSave]
    /\ saves = 0 /\ wanted = rows /\ submitted = {rows} /\ crossed = FALSE

Begin(s, op, asked) ==
    /\ save[s] = NoSave /\ saves < MaxSaves
    /\ saves' = saves + 1
    /\ save' = [save EXCEPT ![s] = [op |-> op, asked |-> asked, gone |-> {}, new |-> {},
                                    step |-> "asked"]]
    /\ UNCHANGED <<family, rows, tags, wanted, submitted, crossed>>

\* RouteRepo.SetTags, for UpdateRoute.
SetTags(s, asked) == family = "tags" /\ Begin(s, "replace", asked)
\* RouteDistributionTargetRepo.ReplaceAll, for Replace.
ReplaceTargets(s, asked) == family = "targets" /\ Begin(s, "replace", asked)
\* TagRepo.Delete.
DeleteTag(s, t) == family = "tags" /\ t \in tags /\ Begin(s, "delete", {t})

-----------------------------------------------------------------------------
\* The rows the DELETE of a transaction covers.
Covered(x) == IF x.op = "replace" THEN rows ELSE rows \cap x.asked

\* DELETE takes its snapshot ...
Wipe(s) ==
    LET x == save[s] IN
    /\ x # NoSave /\ x.step = "asked"
    /\ save' = [save EXCEPT ![s].step = "wiping", ![s].gone = Covered(x)]
    /\ crossed' = (crossed \/ Others(s) # {})
    /\ UNCHANGED <<family, rows, tags, saves, wanted, submitted>>

\* ... waits for rows another transaction is deleting, and skips the vanished.
Wiped(s) ==
    LET x == save[s] IN
    /\ x # NoSave /\ x.step = "wiping"
    /\ \A o \in Others(s) : save[o].step \in {"wiped", "filled"} => save[o].gone \cap x.gone = {}
    /\ save' = [save EXCEPT ![s].step = "wiped", ![s].gone = @ \cap rows]
    /\ UNCHANGED <<family, rows, tags, saves, wanted, submitted, crossed>>

\* Mutant of Filled: the rows that were there are not written again.
FilledLess(x) == x.asked \ x.gone

\* The rows the INSERT writes: SetTags does nothing on a conflict, ReplaceAll
\* updates the row; a key that is there either way is there afterwards.
Filled(x) == x.asked \ (rows \ x.gone)

\* INSERT: waits for a key another transaction is writing, and for a tag it is
\* removing; a removed tag fails the foreign key, and SaveFails follows.
Fill(s) ==
    LET x == save[s] IN
    /\ x # NoSave /\ x.step = "wiped" /\ x.op = "replace"
    /\ x.asked \subseteq tags
    /\ \A o \in Others(s) : (save[o].new \cup save[o].gone) \cap x.asked = {}
    /\ \A o \in Others(s) : save[o].op = "delete" /\ save[o].step = "filled"
                              => save[o].asked \cap x.asked = {}
    /\ save' = [save EXCEPT ![s].step = "filled", ![s].new = Filled(x)]
    /\ UNCHANGED <<family, rows, tags, saves, wanted, submitted, crossed>>

\* Mutant of MayDropTag: the foreign key is not there.
MayDropTagAnyway(s, t) == TRUE

\* route_tags.tag_id has no ON DELETE: no route may carry the tag.
MayDropTag(s, t) ==
    /\ t \notin rows \ save[s].gone
    /\ \A o \in Others(s) : t \notin save[o].new

\* DELETE FROM tags.
DropTag(s) ==
    LET x == save[s] IN
    /\ x # NoSave /\ x.step = "wiped" /\ x.op = "delete"
    /\ \A t \in x.asked : MayDropTag(s, t)
    /\ save' = [save EXCEPT ![s].step = "filled"]
    /\ UNCHANGED <<family, rows, tags, saves, wanted, submitted, crossed>>

SaveDone(s) ==
    LET x == save[s] IN
    /\ x # NoSave /\ x.step = "filled"
    /\ rows' = (rows \ x.gone) \cup x.new
    /\ tags' = IF x.op = "delete" THEN tags \ x.asked ELSE tags
    /\ wanted' = IF x.op = "delete" THEN wanted \ x.asked ELSE x.asked
    /\ submitted' = submitted \cup {wanted'}
    /\ save' = [save EXCEPT ![s] = NoSave]
    /\ UNCHANGED <<family, saves, crossed>>

\* A failed statement, a deadlock's victim, a cancelled request.
SaveFails(s) ==
    /\ save[s] # NoSave
    /\ save' = [save EXCEPT ![s] = NoSave]
    /\ UNCHANGED <<family, rows, tags, saves, wanted, submitted, crossed>>

-----------------------------------------------------------------------------
\* Single statements: ON CONFLICT DO NOTHING makes a second one a no-op.
PutRow(k, new) ==
    /\ family = k /\ rows' = rows \cup new
    /\ UNCHANGED <<family, tags, save, saves, wanted, submitted, crossed>>
Take(k, old) ==
    /\ family = k /\ rows' = rows \ old
    /\ UNCHANGED <<family, tags, save, saves, wanted, submitted, crossed>>

Add(u, t) == PutRow("votes", {<<u, t>>})
RemoveTag(u, t) == Take("votes", {<<u, t>>})
DeleteTagFromRoute(t) == Take("votes", People \X {t})
Follow(u, v) == u # v /\ PutRow("follows", {<<u, v>>})
Unfollow(u, v) == Take("follows", {<<u, v>>})

RowSetsNext ==
    \/ \E s \in Savers :
          \/ \E asked \in SUBSET Keys : SetTags(s, asked) \/ ReplaceTargets(s, asked)
          \/ \E t \in Keys : DeleteTag(s, t)
          \/ Wipe(s) \/ Wiped(s) \/ Fill(s) \/ DropTag(s) \/ SaveDone(s) \/ SaveFails(s)
    \/ \E u \in People, t \in Keys : Add(u, t) \/ RemoveTag(u, t)
    \/ \E t \in Keys : DeleteTagFromRoute(t)
    \/ \E u, v \in People : Follow(u, v) \/ Unfollow(u, v)

RowSetsSpec == RowSetsInit /\ [][RowSetsNext]_setVars

-----------------------------------------------------------------------------
\* A replaced set is the set of the last request that replaced it, and a route
\* carries no tag the org has deleted, as long as no two replacements cross.
SetIsWholeAlone ==
    family \in {"tags", "targets"} =>
        /\ ~crossed => rows = wanted
        /\ family = "tags" => rows \subseteq tags

\* ReplaceAll "wipes the location's existing targets and inserts the caller's
\* set in a single transaction" (repository/route_distribution_targets.go:58):
\* what is stored is a set somebody submitted.
SetIsWhole == family = "targets" => rows \in submitted
=============================================================================
