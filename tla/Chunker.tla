----------------------------- MODULE Chunker -----------------------------
(***************************************************************************)
(* How a document becomes chunks: etl/chunker/semantic_chunker.py          *)
(* (SemanticChunker, ContextualEnricher and MDKeyChunker, the chain that   *)
(* run_etl and the streaming pipeline use).                                *)
(*                                                                         *)
(* A document is HTML: text before its first heading, and sections under   *)
(* headings.  What stands in it are elements with text: "plain" ones are   *)
(* p, ul, ol or table, "nested" ones such elements with another inside,    *)
(* and "bare" ones what the search for these does not see (h4, pre, div).  *)
(* A size is a number of characters, none of them Cyrillic or CJK; two     *)
(* elements of one size, and two headings of one level, have the same      *)
(* text.  A text is a sequence of atoms, and its hash is the text itself.  *)
(* Blank lines inside an element are left out.  "own" remembers the        *)
(* paragraphs a chunk was cut from, each with the places of its elements,  *)
(* and "cuts" from how many chunks it was merged; the code does not.       *)
(***************************************************************************)
EXTENDS Integers, SequencesExt

CONSTANTS max_tokens, min_chunk_tokens, overlap_tokens,
          Elements,              \* [size, tag] of the elements a section may have
          MaxElements, MaxSections,
          Access                 \* the access levels of documents

VARIABLES doc,     \* the document
          lib,     \* MARKDOWNIFY_AVAILABLE
          stage,   \* the next step of MDKeyChunker.process_document
          chunks   \* what the steps so far made

vars == <<doc, lib, stage, chunks>>

Stages == <<"split", "overlap", "merge", "context", "propagate", "pack", "extras", "done">>
Section == [level : {1, 2}, elements : BoundedSeq(Elements, MaxElements)]
Document == [preamble : BoundedSeq(Elements, 1), secs : BoundedSeq(Section, MaxSections),
             access : Access]

TypeOK ==
    /\ doc \in Document
    /\ lib \in BOOLEAN
    /\ stage \in Range(Stages)
    /\ \A i \in DOMAIN chunks : /\ chunks[i].tokens \in Nat
                                /\ chunks[i].access \in Access \cup {"public"}

Init ==
    /\ doc \in Document
    /\ lib \in BOOLEAN
    /\ stage = "split"
    /\ chunks = <<>>

-----------------------------------------------------------------------------
(* Texts.                                                                  *)

Heading(level) == [kind |-> "heading", of |-> <<level>>, size |-> 5]
Element(e) == [kind |-> "element", of |-> <<>>, size |-> e.size]
Title == [kind |-> "title", of |-> <<>>, size |-> 12]
Around == [kind |-> "around", of |-> <<>>, size |-> 12]
Newline == [kind |-> "newline", of |-> <<>>, size |-> 1]
Sep == [kind |-> "sep", of |-> <<>>, size |-> 2]

Size(text) == FoldLeft(LAMBDA n, a : n + a.size, 0, text)

\* _estimate_tokens: four characters make a token; the rest is cut off, but a text has one.
_estimate_tokens(text) == IF text = <<>> THEN 0 ELSE Max({1, Size(text) \div 4})

\* _create_chunk
_create_chunk(text, own) == [text |-> text, own |-> own, cuts |-> 1,
                             tokens |-> _estimate_tokens(text), source |-> "document",
                             access |-> doc.access, raw |-> <<>>]

(***************************************************************************)
(* Sections, each with its paragraphs.  With markdownify the HTML becomes  *)
(* Markdown, in which each element is a paragraph; it is split at ATX      *)
(* headings, and what stands before the first heading is in no section.    *)
(* Without headings all is one section, which begins with the line that    *)
(* _prepend_context put in front.                                          *)
(***************************************************************************)
At(pos) == IF pos[1] = 0 THEN doc.preamble[pos[2]] ELSE doc.secs[pos[1]].elements[pos[2]]
Places(n) == [i \in DOMAIN (IF n = 0 THEN doc.preamble ELSE doc.secs[n].elements) |-> <<n, i>>]
Paragraph(text, own) == [text |-> text, own |-> own]

_split_markdown_by_headings ==
    LET Blocks(n) == [i \in DOMAIN Places(n) |->
                      Paragraph(<<Element(At(<<n, i>>))>>, << <<n, i>> >>)] IN
    IF doc.secs = <<>> THEN <<[n |-> 0, paras |-> <<Paragraph(<<Title>>, <<>>)>> \o Blocks(0)]>>
    ELSE [n \in DOMAIN doc.secs |-> [n |-> n, paras |-> Blocks(n)]]

(***************************************************************************)
(* Without it the HTML elements are searched: a bare one is not found, and *)
(* the element in a nested one is found again by itself.  Single newlines  *)
(* join the elements, so a section is one paragraph; the preamble is the   *)
(* section "root", and a heading without elements disappears.              *)
(***************************************************************************)
find_all(n) ==
    FlattenSeq([i \in DOMAIN Places(n) |->
                CASE At(<<n, i>>).tag = "bare"   -> <<>>
                  [] At(<<n, i>>).tag = "plain"  -> << <<n, i>> >>
                  [] At(<<n, i>>).tag = "nested" -> << <<n, i>>, <<n, i>> >>])

_split_by_headings ==
    LET found == SelectSeq([k \in 1..(Len(doc.secs) + 1) |-> find_all(k - 1)], LAMBDA own : own # <<>>)
        Joined(own) == Tail(FlattenSeq([j \in DOMAIN own |-> <<Newline, Element(At(own[j]))>>])) IN
    [i \in DOMAIN found |-> [n |-> found[i][1][1], paras |-> <<Paragraph(Joined(found[i]), found[i])>>]]

\* Variant: the chunk that is open at the end of a section is not flushed.
cut_open(paras, prefix, again, glue) ==
    LET Take(acc, p) ==
            IF acc.cur # <<>> /\ _estimate_tokens(acc.cur \o glue \o p.text) > max_tokens
            THEN [out |-> Append(acc.out, _create_chunk(acc.cur, acc.own)),
                  cur |-> again \o p.text, own |-> <<p.own>>]
            ELSE [acc EXCEPT !.cur = IF @ = <<>> THEN p.text ELSE @ \o <<Sep>> \o p.text,
                             !.own = Append(@, p.own)]
    IN FoldLeft(Take, [out |-> <<>>, cur |-> prefix, own |-> <<>>], paras).out

\* The paragraphs of a section are gathered until the next one would exceed max_tokens;
\* every further chunk of the section starts with "again", and the last one is flushed.
\* "glue" is what the test counts between two paragraphs.
cut(paras, prefix, again, glue) ==
    LET Take(acc, p) ==
            IF acc.cur # <<>> /\ _estimate_tokens(acc.cur \o glue \o p.text) > max_tokens
            THEN [out |-> Append(acc.out, _create_chunk(acc.cur, acc.own)),
                  cur |-> again \o p.text, own |-> <<p.own>>]
            ELSE [acc EXCEPT !.cur = IF @ = <<>> THEN p.text ELSE @ \o <<Sep>> \o p.text,
                             !.own = Append(@, p.own)]
        last == FoldLeft(Take, [out |-> <<>>, cur |-> prefix, own |-> <<>>], paras)
    IN last.out \o IF last.cur = <<>> THEN <<>> ELSE <<_create_chunk(last.cur, last.own)>>

Prefix(n) == IF n = 0 THEN <<>> ELSE <<Heading(doc.secs[n].level)>>

\* chunk_markdown_with_overlap: the heading is repeated in every chunk of its section.
chunk_markdown_with_overlap ==
    FlattenSeq([i \in DOMAIN _split_markdown_by_headings |->
                LET s == _split_markdown_by_headings[i] IN
                cut(s.paras, Prefix(s.n), Prefix(s.n), <<Sep>>)])

\* chunk_html without markdownify: a chunk after the first of "root" is headed "## root",
\* and the test leaves out the separator.
chunk_html ==
    FlattenSeq([i \in DOMAIN _split_by_headings |->
                LET s == _split_by_headings[i] IN
                cut(s.paras, Prefix(s.n), IF s.n = 0 THEN <<Heading(0)>> ELSE Prefix(s.n), <<>>)])

-----------------------------------------------------------------------------
(* The steps over the list of chunks.                                      *)

\* _apply_overlap: the end of the previous text, its own overlap included, is put in front,
\* between "[previous context: ..." and "]", which have 23 characters.
Snippet(prev) ==
    LET last == Last(prev) IN
    [kind |-> "overlap", of |-> <<last.size>> \o last.of,
     size |-> 23 + IF Size(prev) > 4 * overlap_tokens THEN 4 * overlap_tokens ELSE Size(prev)]
_apply_overlap(cs) ==
    IF overlap_tokens <= 0 \/ Len(cs) <= 1 THEN cs
    ELSE FoldLeft(LAMBDA out, c :
                    LET text == <<Snippet(Last(out).text), Sep>> \o c.text IN
                    Append(out, [c EXCEPT !.text = text, !.tokens = _estimate_tokens(text)]),
                  <<Head(cs)>>, Tail(cs))

Mergeable(a, b) == /\ a.tokens + b.tokens <= max_tokens
                   /\ a.tokens < min_chunk_tokens \/ b.tokens < min_chunk_tokens

\* _merge_short_chunks: a short chunk joins its neighbour when the sum of their estimates fits;
\* the separator and what the estimates cut off are not in the sum.
_merge_short_chunks(cs) ==
    IF cs = <<>> THEN cs
    ELSE FoldLeft(LAMBDA out, c :
                    LET b == Last(out)
                        text == b.text \o <<Sep>> \o c.text IN
                    IF Mergeable(b, c)
                    THEN Append(Front(out), [b EXCEPT !.text = text, !.own = @ \o c.own,
                                                      !.cuts = @ + c.cuts,
                                                      !.tokens = _estimate_tokens(text)])
                    ELSE Append(out, c),
                  <<Head(cs)>>, Tail(cs))

\* _build_context: the title of the document, and what is around the chunk when its text is
\* found in the document: a heading alone or paragraphs alone in the Markdown (a chunk has one
\* newline more or less than it between the two), one element alone in the HTML.
_build_context(c) ==
    LET found == IF lib THEN \/ Len(c.text) = 1
                             \/ \A i \in DOMAIN c.text : c.text[i].kind \in {"element", "title", "sep"}
                 ELSE Len(c.text) = 1 /\ c.text[1].kind = "element" IN
    <<Title>> \o IF found THEN <<Around>> ELSE <<>>

\* ContextualEnricher.enrich_chunks: once per chunk, and the text before it is kept.
enrich_chunks(cs) ==
    [i \in DOMAIN cs |->
        LET text == _build_context(cs[i]) \o <<Sep>> \o cs[i].text IN
        IF cs[i].raw # <<>> THEN cs[i]
        ELSE [cs[i] EXCEPT !.raw = cs[i].text, !.text = text, !.tokens = _estimate_tokens(text)]]

\* _enrich_chunks and _apply_rolling_key_propagation: metadata of the source, then the
\* title of the document in front; no chunk has a semantic key yet, so none is inherited.
_apply_rolling_key_propagation(cs) ==
    [i \in DOMAIN cs |-> [cs[i] EXCEPT !.raw = cs[i].text, !.access = doc.access,
                                       !.text = <<Title, Newline>> \o @]]

\* _pack_by_semantic_key: chunks with the same text become one, which is built without the
\* access fields and so has their defaults.
SameText(cs, i) == SelectSeq([j \in DOMAIN cs |-> j], LAMBDA j : cs[j].text = cs[i].text)
Packed(cs, i) ==
    LET group == SameText(cs, i) IN
    IF Len(group) = 1 THEN cs[i]
    ELSE LET texts == FlattenSeq([k \in DOMAIN group |-> cs[group[k]].text]) IN
         [cs[i] EXCEPT !.text = texts, !.access = "public", !.tokens = 0, !.raw = <<>>,
                       !.own = FlattenSeq([k \in DOMAIN group |-> cs[group[k]].own])]
_pack_by_semantic_key(cs) ==
    LET first == SelectSeq([i \in DOMAIN cs |-> i], LAMBDA i : SameText(cs, i)[1] = i) IN
    [k \in DOMAIN first |-> Packed(cs, first[k])]

-----------------------------------------------------------------------------
(* The chunks a Confluence page gets besides.                              *)

\* _build_heading_tree: the parent is the nearest earlier heading of a lower level.
Parent(n) == LET up == {k \in 1..(n - 1) : doc.secs[k].level < doc.secs[n].level} IN
             IF up = {} THEN 0 ELSE Max(up)

\* _find_node_in_tree: the first heading of the same text (here: of the same level).
_find_node_in_tree(n) == Min({k \in DOMAIN doc.secs : doc.secs[k].level = doc.secs[n].level})

\* create_heading_chunks: the heading and the headings under the one found.
create_heading_chunks ==
    [n \in DOMAIN doc.secs |->
        LET kids == SelectSeq([k \in DOMAIN doc.secs |-> k],
                              LAMBDA k : Parent(k) = _find_node_in_tree(n))
            text == <<Title, Heading(doc.secs[n].level)>>
                    \o [k \in DOMAIN kids |-> Heading(doc.secs[kids[k]].level)] IN
        [text |-> text, own |-> <<>>, cuts |-> 0, tokens |-> _estimate_tokens(text), source |-> "heading",
         access |-> "public", raw |-> <<Heading(doc.secs[n].level)>>]]

\* create_document_chunk: the title and the first 500 characters.
create_document_chunk ==
    [text |-> <<Title, Around>>, own |-> <<>>, cuts |-> 0, tokens |-> _estimate_tokens(<<Title, Around>>),
     source |-> "summary", access |-> "public", raw |-> <<>>]

\* extract_headings needs BeautifulSoup, which is there; _html_to_markdown needs markdownify,
\* without which only the heading chunks are added.
Extras == create_heading_chunks \o IF lib THEN <<create_document_chunk>> ELSE <<>>

-----------------------------------------------------------------------------
\* MDKeyChunker._do_chunking
_do_chunking == IF lib THEN chunk_markdown_with_overlap ELSE chunk_html

Result == CASE stage = "split"     -> _do_chunking
            [] stage = "overlap"   -> _apply_overlap(chunks)
            [] stage = "merge"     -> _merge_short_chunks(chunks)
            [] stage = "context"   -> enrich_chunks(chunks)
            [] stage = "propagate" -> _apply_rolling_key_propagation(chunks)
            [] stage = "pack"      -> _pack_by_semantic_key(chunks)
            [] stage = "extras"    -> chunks \o Extras

\* process_document, one step of the chain at a time.
process_document ==
    /\ stage # "done"
    /\ chunks' = Result
    /\ stage' = Stages[(CHOOSE i \in DOMAIN Stages : Stages[i] = stage) + 1]
    /\ UNCHANGED <<doc, lib>>

Next == process_document
Spec == Init /\ [][Next]_vars

-----------------------------------------------------------------------------
\* The places whose text the document's chunks owe, in its order, with what the code leaves
\* out or takes twice: with markdownify the text before the first heading is dropped, without
\* it bare elements are, and the inside of a nested element comes once more.
AllPlaces == FlattenSeq([k \in 1..(Len(doc.secs) + 1) |-> Places(k - 1)])
Owed(pos) == CASE lib  -> IF pos[1] = 0 /\ doc.secs # <<>> THEN 0 ELSE 1
               [] ~lib -> CASE At(pos).tag = "bare" -> 0
                            [] At(pos).tag = "nested" -> 2
                            [] OTHER -> 1
Expected == FlattenSeq([i \in DOMAIN AllPlaces |-> [k \in 1..Owed(AllPlaces[i]) |-> AllPlaces[i]]])
Owned(cs) == FlattenSeq([i \in DOMAIN cs |-> FlattenSeq(cs[i].own)])
Count(seq, pos) == Cardinality({i \in DOMAIN seq : seq[i] = pos})

(***************************************************************************)
(* No text is lost, doubled or moved between cutting, overlapping and      *)
(* merging but for the exceptions of Owed: the chunks, read in order, are  *)
(* the elements of the document; packing equal chunks may move some but    *)
(* keeps them all (SemanticChunker, MDKeyChunker.process_document).        *)
(***************************************************************************)
NothingLost ==
    /\ stage \in {"overlap", "merge", "context", "propagate", "pack"} => Owned(chunks) = Expected
    /\ stage \in {"extras", "done"} =>
           \A pos \in Range(AllPlaces) : Count(Owned(chunks), pos) = Count(Expected, pos)

(***************************************************************************)
(* What is over max_tokens, and by how much: a chunk as it was cut only if *)
(* it holds a single paragraph; after that by the overlap and the words    *)
(* around it; and a merged chunk by two at most, since the estimates the   *)
(* merge adds up are cut off and leave out the separator.                  *)
(***************************************************************************)
SizesBounded ==
    \A i \in DOMAIN chunks :
        /\ stage = "overlap" /\ Len(chunks[i].own) > 1 => chunks[i].tokens <= max_tokens
        /\ stage = "merge" /\ Len(chunks[i].own) > 1 =>
               chunks[i].tokens <= max_tokens + overlap_tokens + 7
        /\ stage = "context" /\ chunks[i].cuts > 1 => chunks[i].tokens <= max_tokens + 2

ChunksCover == NothingLost /\ SizesBounded
=============================================================================
