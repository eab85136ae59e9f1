----------------------------- MODULE Extractors -----------------------------
(***************************************************************************)
(* One run of a source extractor (etl/extractors/confluence.py, jira.py,   *)
(* gitlab.py), request by request: the listing in pages by offset while    *)
(* the source changes, then for every item the requests it is put together *)
(* from.  A request is retried when the connection drops or times out and  *)
(* raises at once on any other answer; shutdown is noticed before every    *)
(* attempt and in every back-off.  Left out are two other ways to list:    *)
(* Confluence by CQL (since_date), which ends at a total like Jira's, or   *)
(* after one page if the answer has none, and GitLab by project_ids, one   *)
(* request for each.                                                       *)
(*                                                                         *)
(* EtlBatch has what several extractors and runs do to the shared WAL      *)
(* file; here an item extracted is one action there.                       *)
(***************************************************************************)
EXTENDS Naturals, Sequences, SequencesExt, FiniteSets

CONSTANTS Items,            \* the items at the source as the run begins: a sequence
          Recorded,         \* those of them that the WAL already has
          Active,           \* the GitLab projects with commits since the last run
          PAGE,             \* limit, max_results, per_page
          MAX_RETRIES,      \* of a request
          DOWNLOAD_RETRIES, \* of a Confluence or Jira attachment
          MAX_ITEMS,        \* max_issues_per_run, max_projects where they are set
          MaxChanges,       \* bound on changes at the source
          MaxFaults         \* bound on failed attempts

VARIABLES source,    \* the extractor
          download,  \* download_attachments, fetch_files
          remote,    \* the items at the source, in the order of its answers
          moved,     \* history: items that came to the front meanwhile
          deleted,   \* history: how many items were deleted meanwhile
          shutdown,  \* _shutdown_event
          run,       \* where the run is
          raw,       \* item -> the parts missing from what was saved of it, or Unsaved
          wal,       \* items recorded
          failed,    \* history: items given up by this run
          faults

vars == <<source, download, remote, moved, deleted, shutdown, run, raw, wal, failed, faults>>
sourceVars == <<remote, moved, deleted>>

Unsaved == {"unsaved"}
All == ToSet(Items)

Step(part, kind) == [part |-> part, kind |-> kind]

\* What a Confluence page is put together from.
extract_page ==
    <<Step("detail", "must"), Step("versions", "must"), Step("comments", "must"),
      Step("attachments", "must")>>

\* A Jira issue came with the list; only its sprints are asked for.
_process_issue == <<Step("sprints", "may")>>

\* Attachments are downloaded one by one, and a failure leaves local_path None.
Attachments == IF download THEN <<Step("file", "download")>> ELSE <<>>

get_commits == <<Step("commits", "must"), Step("diff", "may"), Step("commits", "record")>>

\* Discussions, then changes, of every merge request.
get_merge_requests == <<Step("merge_requests", "must"), Step("discussions", "must"), Step("changes", "must")>>

\* The tree, then the contents of every file that the filters let through.
get_files == IF download THEN <<Step("tree", "may"), Step("file", "single")>> ELSE <<>>

Steps ==
    CASE source = "confluence" -> extract_page \o Attachments
      [] source = "jira"       -> _process_issue \o Attachments
      [] source = "gitlab"     -> get_commits \o <<Step("branches", "must")>> \o get_merge_requests \o get_files

Parts == {"detail", "versions", "comments", "attachments", "sprints", "file", "commits", "diff",
          "branches", "merge_requests", "discussions", "changes", "tree"}
Nobody == "nobody"

TypeOK ==
    /\ source \in {"confluence", "jira", "gitlab"} /\ download \in BOOLEAN /\ shutdown \in BOOLEAN
    /\ ToSet(remote) \subseteq All /\ moved \subseteq All /\ deleted \in 0..MaxChanges
    /\ run \in [pc: {"idle", "list", "items", "parts", "end", "raised"}, start: Nat, last: BOOLEAN,
                listed: Seq(All), item: All \cup {Nobody}, step: Nat, attempt: Nat,
                missing: SUBSET Parts, count: Nat, limit: {0, MAX_ITEMS}]
    /\ raw \in [All -> SUBSET (Parts \cup Unsaved)]
    /\ wal \subseteq All /\ failed \subseteq All /\ faults \in 0..MaxFaults

Fresh == [pc |-> "idle", start |-> 0, last |-> FALSE, listed |-> <<>>, item |-> Nobody, step |-> 1,
          attempt |-> 0, missing |-> {}, count |-> 0, limit |-> 0]

Init ==
    /\ source \in {"confluence", "jira", "gitlab"}
    /\ download \in BOOLEAN
    /\ remote = Items /\ moved = {} /\ deleted = 0 /\ shutdown = FALSE
    /\ run \in {[Fresh EXCEPT !.limit = n] : n \in {0, MAX_ITEMS}}
    /\ raw = [i \in All |-> IF i \in Recorded THEN {} ELSE Unsaved]
    /\ wal = Recorded
    /\ failed = {} /\ faults = 0

-----------------------------------------------------------------------------
(* The source changes while it is listed. *)

\* An update brings the k-th issue to the front of ORDER BY updated DESC.
Touch(k) ==
    /\ Cardinality(moved) + deleted < MaxChanges /\ k \in DOMAIN remote
    /\ run.pc \in {"list", "items", "parts"} /\ remote[k] \notin moved
    /\ remote' = <<remote[k]>> \o RemoveAt(remote, k)
    /\ moved' = moved \cup {remote[k]}
    /\ UNCHANGED <<source, download, deleted, shutdown, run, raw, wal, failed, faults>>

Delete(k) ==
    /\ Cardinality(moved) + deleted < MaxChanges /\ k \in DOMAIN remote
    /\ run.pc \in {"list", "items", "parts"}
    /\ remote' = RemoveAt(remote, k)
    /\ deleted' = deleted + 1
    /\ UNCHANGED <<source, download, moved, shutdown, run, raw, wal, failed, faults>>

Signal ==
    /\ ~shutdown /\ run.pc \in {"list", "items", "parts"}
    /\ shutdown' = TRUE
    /\ UNCHANGED <<source, download, sourceVars, run, raw, wal, failed, faults>>

-----------------------------------------------------------------------------
(* The request at hand: for a page of the list, or for a part of an item. *)

Current == Steps[run.step]
Asking == run.pc = "list" \/ (run.pc = "parts" /\ run.step <= Len(Steps) /\ Current.kind # "record")
Kind == IF run.pc = "list" THEN "list" ELSE Current.kind

\* Downloads do not look for shutdown; contents of files are asked for after a look.
Heeds == Kind # "download"
Retries == CASE Kind = "download" -> DOWNLOAD_RETRIES [] Kind = "single" -> 0 [] OTHER -> MAX_RETRIES

Onward(r) == [r EXCEPT !.step = @ + 1, !.attempt = 0]

\* except Exception around an optional part: it is left out.  Without the tree there are no files.
LeftOut(r) == Onward([r EXCEPT !.missing = @ \cup {Current.part}
                                 \cup IF Current.part = "tree" THEN {"file"} ELSE {},
                               !.step = IF Current.part = "tree" THEN @ + 1 ELSE @])

NextItem(r) == [r EXCEPT !.pc = "items", !.item = Nobody, !.step = 1, !.attempt = 0, !.missing = {}]
Over(r, pc) == [NextItem(r) EXCEPT !.pc = pc, !.listed = <<>>]

\* Variant: the page is the last one unless it holds more than the limit.
LastPage_full(results) ==
    IF source = "gitlab" THEN results = <<>> ELSE Len(results) <= PAGE

\* Confluence stops at a short page, Jira at the total, GitLab at an empty page.
LastPage(results) ==
    CASE source = "confluence" -> Len(results) < PAGE
      [] source = "jira"       -> run.start + PAGE >= Len(remote)
      [] source = "gitlab"     -> results = <<>>

\* max_projects cuts the list of projects.
Cut(s) == IF source = "gitlab" /\ run.limit \in 1..Len(s) THEN SubSeq(s, 1, run.limit) ELSE s

\* A page arrives.  Jira's issues are processed page by page, the others once the list is complete.
page ==
    LET results == SubSeq(remote, run.start + 1,
                          IF run.start + PAGE < Len(remote) THEN run.start + PAGE ELSE Len(remote))
        listed == run.listed \o results
    IN
    /\ run.pc = "list" /\ ~shutdown
    /\ run' = [run EXCEPT !.start = @ + PAGE, !.attempt = 0, !.last = LastPage(results),
                          !.listed = IF LastPage(results) THEN Cut(listed) ELSE listed,
                          !.pc = IF source = "jira" \/ LastPage(results) THEN "items" ELSE @]
    /\ UNCHANGED <<source, download, sourceVars, shutdown, raw, wal, failed, faults>>

\* _request: the answer to a part of an item.
_request ==
    /\ Asking /\ run.pc = "parts" /\ (Heeds => ~shutdown)
    /\ run' = Onward(run)
    /\ UNCHANGED <<source, download, sourceVars, shutdown, raw, wal, failed, faults>>

\* The connection drops or times out, and there is an attempt left.
_request_retry ==
    /\ Asking /\ (Heeds => ~shutdown)
    /\ faults < MaxFaults /\ run.attempt < Retries
    /\ faults' = faults + 1
    /\ run' = [run EXCEPT !.attempt = @ + 1]
    /\ UNCHANGED <<source, download, sourceVars, shutdown, raw, wal, failed>>

\* The last attempt fails; or the answer is a failure of TLS, an HTTP error, or no JSON.
\* Confluence and Jira give up the item and go on, GitLab's exception ends the run.
_request_raises ==
    /\ Asking /\ (Heeds => ~shutdown)
    /\ faults < MaxFaults
    /\ faults' = faults + 1
    /\ CASE Kind = "list"                           -> run' = Over(run, "raised") /\ UNCHANGED failed
         [] Kind \in {"may", "download", "single"}  -> run' = LeftOut(run) /\ UNCHANGED failed
         [] Kind = "must" /\ source = "gitlab"      -> run' = Over(run, "raised") /\ UNCHANGED failed
         [] OTHER                                   -> run' = NextItem(run) /\ failed' = failed \cup {run.item}
    /\ UNCHANGED <<source, download, sourceVars, shutdown, raw, wal>>

\* _check_shutdown, _interruptible_sleep: InterruptedError ends a run that is listing with an
\* exception and one at a required part normally; around an optional part it is swallowed
\* like any other failure, and the item is completed without it.
_check_shutdown ==
    /\ Asking /\ Heeds /\ shutdown
    /\ run' = CASE Kind = "list" -> Over(run, "raised")
                [] Kind = "must" -> Over(run, "end")
                [] OTHER         -> LeftOut(run)
    /\ UNCHANGED <<source, download, sourceVars, shutdown, raw, wal, failed, faults>>

-----------------------------------------------------------------------------
(* The run *)

\* The constructor, which rejects an empty url or token, and the first request.
__init__(valid) ==
    /\ run.pc = "idle"
    /\ run' = [run EXCEPT !.pc = IF valid THEN "list" ELSE "raised"]
    /\ UNCHANGED <<source, download, sourceVars, shutdown, raw, wal, failed, faults>>

\* Is item i skipped?  A Jira key is, once recorded; a Confluence page unless it changed before
\* it was listed; a GitLab project never.
Skips(i) ==
    CASE source = "confluence" -> {i \in wal} \cup {i \in wal \ moved}
      [] source = "jira"       -> {i \in wal}
      [] source = "gitlab"     -> {FALSE}

item(skipped) ==
    LET i == Head(run.listed) IN
    /\ run.pc = "items" /\ ~shutdown /\ run.listed # <<>>
    /\ skipped \in Skips(i)
    /\ run' = IF skipped THEN [run EXCEPT !.listed = Tail(@)]
              ELSE [run EXCEPT !.listed = Tail(@), !.item = i, !.pc = "parts"]
    /\ UNCHANGED <<source, download, sourceVars, shutdown, raw, wal, failed, faults>>

\* Between two items shutdown is an exception that nobody here catches.
item_shutdown ==
    /\ run.pc = "items" /\ shutdown /\ run.listed # <<>>
    /\ run' = Over(run, "raised")
    /\ UNCHANGED <<source, download, sourceVars, shutdown, raw, wal, failed, faults>>

\* No item is left: Jira asks for the next page, or the run is over.
exhausted ==
    /\ run.pc = "items" /\ run.listed = <<>>
    /\ run' = IF run.last THEN Over(run, "end") ELSE [run EXCEPT !.pc = "list"]
    /\ UNCHANGED <<source, download, sourceVars, shutdown, raw, wal, failed, faults>>

\* GitLab records the newest commit before it has read the rest of the project.
_update_wal_commit ==
    /\ run.pc = "parts" /\ run.step <= Len(Steps) /\ Current.kind = "record"
    /\ wal' = IF run.item \in Active THEN wal \cup {run.item} ELSE wal
    /\ run' = Onward(run)
    /\ UNCHANGED <<source, download, sourceVars, shutdown, raw, failed, faults>>

\* The item is written with what there is of it; a page or an issue is then recorded.
save ==
    LET count == run.count + 1 IN
    /\ run.pc = "parts" /\ run.step > Len(Steps)
    /\ raw' = [raw EXCEPT ![run.item] = run.missing]
    /\ wal' = IF source = "gitlab" THEN wal ELSE wal \cup {run.item}
    /\ run' = IF source = "jira" /\ run.limit > 0 /\ count >= run.limit
              THEN [Over(run, "end") EXCEPT !.count = count]
              ELSE [NextItem(run) EXCEPT !.count = count]
    /\ UNCHANGED <<source, download, sourceVars, shutdown, failed, faults>>

Next ==
    \/ \E k \in DOMAIN remote : Touch(k) \/ Delete(k)
    \/ \E b \in BOOLEAN : __init__(b) \/ item(b)
    \/ Signal \/ page \/ _request \/ _request_retry \/ _request_raises \/ _check_shutdown
    \/ item_shutdown \/ exhausted \/ _update_wal_commit \/ save

Spec == Init /\ [][Next]_vars

-----------------------------------------------------------------------------
(***************************************************************************)
(* A run that ends without an exception, a signal or the limit on items    *)
(* has passed over no item that was at the source all the time, unless     *)
(* items were deleted, which moves others behind the offset: each is on    *)
(* disk, or was given up and is left for the next run to find.  And what   *)
(* is recorded of a page or an issue is on disk with every required part,  *)
(* however often requests failed and whenever shutdown came.               *)
(***************************************************************************)
ExtractionAccounted ==
    /\ (run.pc = "end" /\ ~shutdown /\ deleted = 0 /\ run.limit = 0) =>
           \A i \in All \ moved : raw[i] # Unsaved \/ (i \in failed /\ (i \notin wal \/ source = "gitlab"))
    /\ source # "gitlab" =>
           \A i \in wal : raw[i] # Unsaved /\ raw[i] \cap {"detail", "versions", "comments", "attachments"} = {}
=============================================================================
