--------------------------- MODULE FileExtractors ---------------------------
(***************************************************************************)
(* Extraction from files (etl/extractors/doc_extractor.py,                 *)
(* book_extractor.py, chat_extractor.py, image_extractor.py): files are    *)
(* found, each is cut into documents, a file that raises is left, and the  *)
(* images of a PDF go through OCR engines that may be missing.             *)
(*                                                                         *)
(* A file is a sequence of lines, some of which its format takes for       *)
(* headings; a chat export is a sequence of conversations, a conversation  *)
(* without messages is <<>>.  A document is the set of lines it holds.     *)
(***************************************************************************)
EXTENDS Naturals, Sequences, SequencesExt, FiniteSets

CONSTANTS Files,      \* files that may be under base_url: name -> [ext, lines, talks, wrapped, generic]
          Excluded,   \* names that exclude_patterns match
          Styled,     \* titles with inline markup, which the plain text of the file has lost
          Primary,    \* OCR_PRIMARY_ENGINE
          MaxImages   \* images of the PDF

VARIABLES todo,   \* _source_files still to extract
          docs,   \* file -> documents yielded
          left,   \* files whose extraction raised
          pdf     \* process_pdf_with_ocr: images extracted, their text

vars == <<todo, docs, left, pdf>>

Engines == {"tesseract", "easyocr"}
Names == DOMAIN Files
NoText == "none"
Doc(n, lines) == [part |-> n, lines |-> lines]

-----------------------------------------------------------------------------
(* Lines that head a section: a set of positions. *)

Headings(ls) == {i \in 1..Len(ls) : ls[i].head}
Nth(S, k) == CHOOSE i \in S : Cardinality({j \in S : j < i}) = k - 1

\* From the k-th position of H to the next one, or to the end.
Slice(ls, H, k) == Nth(H, k) .. IF k < Cardinality(H) THEN Nth(H, k + 1) - 1 ELSE Len(ls)

\* Markdown: between this heading and the next.
_get_section_text(ls, k) == Slice(ls, Headings(ls), k)

\* From the first line of O to the one before the second, to the end if there is no second, and
\* all of the text if there is none: the heading is looked up again by its title.
ByTitle(ls, O) ==
    IF O = {} THEN 1..Len(ls)
    ELSE Nth(O, 1) .. IF Cardinality(O) > 1 THEN Nth(O, 2) - 1 ELSE Len(ls)

\* reStructuredText: every line that reads like the title counts.
_get_rst_section_text(ls, k) ==
    LET t == ls[Nth(Headings(ls), k)].title IN
    ByTitle(ls, {i \in 1..Len(ls) : ls[i].title = t /\ t \notin Styled})

\* AsciiDoc: every heading with the title counts.
_get_section_text_from_headings(ls, k) ==
    LET t == ls[Nth(Headings(ls), k)].title IN
    ByTitle(ls, {i \in Headings(ls) : ls[i].title = t /\ t \notin Styled})

\* One document per heading, or one for all of a text without headings.
Sections(f, cuts) ==
    IF DOMAIN cuts = {} THEN {Doc(0, 1..Len(f.lines))} ELSE {Doc(k, cuts[k]) : k \in DOMAIN cuts}
Numbers(f) == 1..Cardinality(Headings(f.lines))

_extract_markdown(f) == Sections(f, [k \in Numbers(f) |-> _get_section_text(f.lines, k)])
_extract_rst(f) == Sections(f, [k \in Numbers(f) |-> _get_rst_section_text(f.lines, k)])
_extract_asciidoc(f) == Sections(f, [k \in Numbers(f) |-> _get_section_text_from_headings(f.lines, k)])
_extract_generic_text(f) == {Doc(0, 1..Len(f.lines))}

\* PDF: chapters by the usual patterns.
_split_into_sections(ls, k) == Slice(ls, Headings(ls), k)
_extract_pdf(f) == Sections(f, [k \in Numbers(f) |-> _split_into_sections(f.lines, k)])

\* BeautifulSoup removes every tag that is not allowed, with all it encloses: html, body, div.
_clean_html(f) == IF f.wrapped THEN [f EXCEPT !.lines = <<>>] ELSE f

\* EPUB: a section is what follows its heading.
_extract_headings(ls, k) == Slice(ls, Headings(ls), k) \ Headings(ls)
_extract_epub(f) ==
    LET g == _clean_html(f) IN Sections(g, [k \in Numbers(g) |-> _extract_headings(g.lines, k)])

\* DOCX: a chapter is the text since the last heading, and is dropped if there is none.
_extract_docx(f) ==
    LET H == Headings(f.lines)
        Chapter(k) == {i \in 1..Len(f.lines) \ H : Cardinality({h \in H : h < i}) = k}
        full == {k \in 0..Cardinality(H) : Chapter(k) # {}}
    IN  IF full = {} THEN {Doc(0, {})} ELSE {Doc(k, Chapter(k)) : k \in full}

-----------------------------------------------------------------------------
(* Chats: a message is <<conversation, position>>. *)

\* A user's message is answered by the next assistant message, unless the user asks again first.
_extract_qa_pairs(talk) ==
    {<<q, a>> \in (1..Len(talk)) \X (1..Len(talk)) :
        /\ q < a /\ talk[q] = "user" /\ talk[a] = "assistant"
        /\ \A i \in (q + 1)..(a - 1) : talk[i] \notin {"user", "assistant"}}

\* One document per pair, with the question in its metadata; without pairs all of the talk.
_conversation_to_documents(f, c) ==
    LET talk == f.talks[c]
        pairs == _extract_qa_pairs(talk)
    IN  IF pairs = {} THEN {Doc(<<c, 0>>, {<<c, i>> : i \in 1..Len(talk)})}
        ELSE {Doc(<<c, p[1]>>, {<<c, p[1]>>, <<c, p[2]>>}) : p \in pairs}

\* A conversation without messages is None.
_normalize_conversation(talk) == talk # <<>>

\* It is dropped by every parser but that of generic JSON, where it
\* stops the file: the documents before it have been yielded.
Parsed(f) ==
    LET empty == {c \in 1..Len(f.talks) : ~_normalize_conversation(f.talks[c])}
    IN  IF f.generic THEN {c \in 1..Len(f.talks) : \A e \in empty : c < e}
        ELSE 1..Len(f.talks) \ empty

_parse_file(f) == UNION {_conversation_to_documents(f, c) : c \in Parsed(f)}
Stops(f) == f.generic /\ \E c \in 1..Len(f.talks) : ~_normalize_conversation(f.talks[c])

-----------------------------------------------------------------------------

Extract(f) ==
    CASE f.ext = "md"   -> _extract_markdown(f)
      [] f.ext = "rst"  -> _extract_rst(f)
      [] f.ext = "adoc" -> _extract_asciidoc(f)
      [] f.ext = "txt"  -> _extract_generic_text(f)
      [] f.ext = "pdf"  -> _extract_pdf(f)
      [] f.ext = "epub" -> _extract_epub(f)
      [] f.ext = "docx" -> _extract_docx(f)
      [] f.ext = "json" -> _parse_file(f)

NoPdf == [pc |-> "idle", images |-> <<>>, text |-> <<>>]

TypeOK ==
    /\ todo \subseteq Names /\ left \subseteq Names
    /\ DOMAIN docs = Names
    /\ pdf.pc \in {"idle", "ocr", "end", "raised"}
    /\ Len(pdf.text) <= Len(pdf.images) /\ Len(pdf.images) <= MaxImages

Unused == todo = {} /\ docs = [n \in Names |-> {}] /\ left = {} /\ pdf = NoPdf

Init == Unused

\* validate_connection: the supported files that are not excluded.
validate_connection(present) ==
    /\ Unused
    /\ todo' = present \ Excluded
    /\ UNCHANGED <<docs, left, pdf>>

\* extract: the documents of one file are yielded.
extract(n) ==
    /\ n \in todo
    /\ todo' = todo \ {n}
    /\ docs' = [docs EXCEPT ![n] = Extract(Files[n])]
    /\ left' = IF Files[n].ext = "json" /\ Stops(Files[n]) THEN left \cup {n} ELSE left
    /\ UNCHANGED pdf

\* The file cannot be read or decoded: logged, and on with the next.
extract_raises(n) ==
    /\ n \in todo
    /\ todo' = todo \ {n}
    /\ left' = left \cup {n}
    /\ UNCHANGED <<docs, pdf>>

-----------------------------------------------------------------------------
(* Images of a PDF *)

\* pdfplumber saves some of the images, in order, and an exception ends it early.
_extract_images_with_pdfplumber == {SetToSortSeq(S, <) : S \in SUBSET (1..MaxImages)}

\* PyMuPDF skips images without bytes and ends early alike.
_extract_images_with_pymupdf == {SetToSortSeq(S, <) : S \in SUBSET (1..MaxImages)}

\* The second library is tried if the first one finds nothing.
extract_images_from_pdf(first, second) ==
    /\ Unused
    /\ pdf' = [pdf EXCEPT !.pc = "ocr", !.images = IF first # <<>> THEN first ELSE second]
    /\ UNCHANGED <<todo, docs, left>>

\* What an engine does with an image: text, nothing legible, an error that the other engine is
\* tried for (ImportError, RuntimeError), or any other error.
Outcomes == {"text", "blank", "unavailable", "error"}

\* The primary engine, then the other one: <<engine whose text it is, raised?>>.
process_image_with_ocr(outcome) ==
    LET other == CHOOSE e \in Engines : e # Primary
        used == IF outcome[Primary] = "unavailable" THEN other ELSE Primary
    IN  CASE outcome[used] = "text"  -> <<used, FALSE>>
          [] outcome[used] = "error" -> <<NoText, TRUE>>
          [] OTHER                   -> <<NoText, FALSE>>

\* process_pdf_with_ocr: the next image.  Any other error ends the loop and all of the PDF.
process_pdf_with_ocr(outcome) ==
    LET r == process_image_with_ocr(outcome) IN
    /\ pdf.pc = "ocr" /\ Len(pdf.text) < Len(pdf.images)
    /\ pdf' = IF r[2] THEN [pdf EXCEPT !.pc = "raised"] ELSE [pdf EXCEPT !.text = Append(@, r[1])]
    /\ UNCHANGED <<todo, docs, left>>

\* extract_pdf_with_ocr appends the texts of the images to that of the pages.
extract_pdf_with_ocr ==
    /\ pdf.pc = "ocr" /\ Len(pdf.text) = Len(pdf.images)
    /\ pdf' = [pdf EXCEPT !.pc = "end"]
    /\ UNCHANGED <<todo, docs, left>>

Next ==
    \/ \E n, m \in Names : validate_connection({n, m})
    \/ \E n \in todo : extract(n) \/ extract_raises(n)
    \/ \E s \in _extract_images_with_pdfplumber, t \in _extract_images_with_pymupdf :
          extract_images_from_pdf(s, t)
    \/ \E outcome \in [Engines -> Outcomes] : process_pdf_with_ocr(outcome)
    \/ extract_pdf_with_ocr

Spec == Init /\ [][Next]_vars

-----------------------------------------------------------------------------
(* What a reader of the extracted documents relies on. *)

Covered(n) == UNION {d.lines : d \in docs[n]}
FirstHeading(f) == IF Headings(f.lines) = {} THEN 1 ELSE Nth(Headings(f.lines), 1)

\* No line reads like the title of a heading that it is not.
TitlesOnce(f) == \A h \in Headings(f.lines) : \A i \in 1..Len(f.lines) :
                    f.lines[i].title = f.lines[h].title => i = h

(***************************************************************************)
(* From its first heading on, no line of an extracted file is lost: every  *)
(* format yields it in some document, and Markdown, PDF, DOCX and EPUB in  *)
(* exactly one (EPUB and DOCX keep headings as titles only).  Of a chat,   *)
(* every answer is yielded with the question it follows and no message     *)
(* twice.  Three things the code does not keep: text before the first      *)
(* heading; RST and AsciiDoc text under a title that occurs again; an EPUB *)
(* whose chapters are in html or body elements, which comes out empty.     *)
(***************************************************************************)
ExtractedCovers ==
    \A n \in {x \in Names : docs[x] # {}} : LET f == Files[n] IN
        /\ f.ext \in {"md", "pdf"} \/ (f.ext \in {"rst", "adoc"} /\ TitlesOnce(f)) => FirstHeading(f)..Len(f.lines) \subseteq Covered(n)
        /\ f.ext = "docx" => 1..Len(f.lines) \ Headings(f.lines) = Covered(n)
        /\ f.ext = "epub" /\ ~f.wrapped =>
               FirstHeading(f)..Len(f.lines) \ Headings(f.lines) = Covered(n)
        /\ f.ext \in {"md", "pdf", "docx", "epub", "json"} =>
               \A d, e \in docs[n] : d # e => d.lines \cap e.lines = {}
        /\ f.ext = "json" => \A c \in Parsed(f) : \A i \in 2..Len(f.talks[c]) :
               (f.talks[c][i] = "assistant" /\ f.talks[c][i - 1] = "user") =>
                   \E d \in docs[n] : {<<c, i - 1>>, <<c, i>>} \subseteq d.lines
=============================================================================
