------------------------------- MODULE PageText -------------------------------
(***************************************************************************)
(* The text of a document on its way from the model's answers to the       *)
(* Markdown files (engines/dotsocr.py, domain/algorithms.py and            *)
(* metadata.py, pipeline/postprocess.py, output/rendering.py): blocks are  *)
(* filtered, neighbours are merged, a sentence that goes on on the next    *)
(* page is put together, and each page is merged again as it is written,   *)
(* once as filtered and once as it was read.                               *)
(*                                                                         *)
(* A text is a sequence of words and marks.  A word is known by its place  *)
(* (.at) and by what the patterns of metadata.py see in it (.as):          *)
(*   letter, keyword, anchor  begins and ends with an English letter       *)
(*   stop, dots    begins with a letter, ends a sentence, is of a contents *)
(*   mark, bullet  begins with a heading mark, with a bullet; ends with a  *)
(*                 letter                                                  *)
(*   digit, han    digits, Chinese characters                              *)
(* A document is [pages, options]: the cells the model found on each page. *)
(* Captions of tables and pictures and author blocks are left out.         *)
(***************************************************************************)
EXTENDS Integers, SequencesExt

Hyphen == [at |-> <<>>, as |-> "hyphen"]
Space == [at |-> <<>>, as |-> "space"]
Sharp == [at |-> <<>>, as |-> "mark"]     \* "## "

\* What is at some places of a sequence, in its order.
Where(s, places) == FlattenSeq([k \in DOMAIN s |-> IF k \in places THEN <<s[k]>> ELSE <<>>])

Words(text) == Where(text, {k \in DOMAIN text : text[k].at # <<>>})
WordsOf(cells) == FlattenSeq([k \in DOMAIN cells |-> Words(cells[k].text)])

-----------------------------------------------------------------------------
(* What the patterns see.                                                  *)

Has(text, kind) == \E k \in DOMAIN text : text[k].as = kind
Begins(text, kinds) == text # <<>> /\ Head(text).as \in kinds
Closes(text, kinds) == text # <<>> /\ Last(text).as \in kinds

Lettered == {"letter", "keyword", "anchor"}
StartsEnglish(text) == Begins(text, Lettered \cup {"stop", "dots"})
EndsEnglish(text) == Closes(text, Lettered \cup {"mark", "bullet"})
ToChinese(text1, text2) == EndsEnglish(text1) /\ Has(text2, "han")
NewParagraph(text) == Begins(text, {"mark"})

\* No block goes on after a number, a sentence, an entry of a table of contents.
Finished(text1) == Closes(text1, {"digit", "stop"}) \/ Has(text1, "dots")
GoesOn(text1, text2) ==
  /\ ~ Finished(text1) /\ ~ ToChinese(text1, text2)
  /\ ~ NewParagraph(text2) /\ ~ Has(text2, "dots")

\* A hyphen at the end of a line goes, other words keep apart.
Joined(text1, text2) ==
  IF Len(text1) > 1 /\ Closes(text1, {"hyphen"}) /\ StartsEnglish(text2)
  THEN Front(text1) \o text2
  ELSE IF /\ EndsEnglish(text1) \/ Closes(text1, {"digit"})
          /\ StartsEnglish(text2) \/ Begins(text2, {"digit"})
       THEN text1 \o <<Space>> \o text2
       ELSE text1 \o text2

-----------------------------------------------------------------------------
(* One page.                                                               *)

IsText(cell) == cell.category = "Text"
TextPlaces(cells) == {k \in DOMAIN cells : IsText(cells[k])}

\* _locate_first_page_summary_anchor, _trim_first_page_blocks: before the summary
\* only titles stay.
Trimmed(cells) ==
  LET anchors == {k \in DOMAIN cells : Has(cells[k].text, "anchor")}
      Stays(k) == \/ anchors = {} \/ k >= Min(anchors)
                  \/ cells[k].category \in {"Title", "Section-header"}
  IN Where(cells, {k \in DOMAIN cells : Stays(k)})

Filtered(cells) ==
  Where(cells, {k \in DOMAIN cells :
                  ~ (/\ cells[k].category \in {"Text", "List-item", "Section-header", "Footnote"}
                     /\ Has(cells[k].text, "keyword"))})

\* ensure_section_headers_have_markers
Marked(cells) ==
  [k \in DOMAIN cells |->
     IF cells[k].category = "Section-header" /\ ~ Begins(cells[k].text, {"mark"})
     THEN [cells[k] EXCEPT !.text = <<Sharp>> \o @] ELSE cells[k]]

\* The cells of page p, and the copy of them as they were read.
Taken(d, p) ==
  LET trimmed == IF d.options.trim /\ p = 1 THEN Trimmed(d.pages[p]) ELSE d.pages[p]
  IN Marked(IF d.options.keywords THEN Filtered(trimmed) ELSE trimmed)

MergeOnPage(cell1, cell2) ==
  /\ IsText(cell1) /\ IsText(cell2)
  /\ cell1.text # <<>> /\ cell2.text # <<>>
  /\ GoesOn(cell1.text, cell2.text)
  /\ ~ Begins(cell2.text, {"bullet"})

MergeNext(out, cell) ==
  IF out # <<>> /\ MergeOnPage(Last(out), cell)
  THEN Append(Front(out), [Last(out) EXCEPT !.text = Joined(@, cell.text)])
  ELSE Append(out, cell)

\* What has become of so many cells.
MergedSoFar(cells) ==
  LET out[i \in 0 .. Len(cells)] == IF i = 0 THEN <<>> ELSE MergeNext(out[i - 1], cells[i])
  IN out

MergedPage(cells) == MergedSoFar(cells)[Len(cells)]

-----------------------------------------------------------------------------
(* The sentence that goes on on the next page.                             *)

Passable == {"Picture", "Page-header", "Page-footer", "Section-header", "Footnote"}
LastText(cells) == Max(TextPlaces(cells))
FirstText(cells) == Min(TextPlaces(cells))

\* _is_path_clean_between_texts
CleanBetween(cells1, cells2) ==
  /\ \A k \in LastText(cells1) + 1 .. Len(cells1) : cells1[k].category \in Passable
  /\ \A k \in 1 .. FirstText(cells2) - 1 : cells2[k].category \in Passable

HeadedAnew(cells) ==
  LET k == FirstText(cells) - 1
  IN k > 0 /\ cells[k].category = "Section-header" /\ NewParagraph(cells[k].text)

Crosses(cells1, cells2) ==
  /\ TextPlaces(cells1) # {} /\ TextPlaces(cells2) # {}
  /\ CleanBetween(cells1, cells2)
  /\ GoesOn(cells1[LastText(cells1)].text, cells2[FirstText(cells2)].text)
  /\ ~ HeadedAnew(cells2)

\* The last block goes on with the first of the next page, which is only marked, and
\* goes when all pages are done.
TakesOver(cells1, cells2) ==
  [cells1 EXCEPT ![LastText(cells1)].text = Joined(@, cells2[FirstText(cells2)].text)]
GivesAway(cells) == [cells EXCEPT ![FirstText(cells)].gone = TRUE]

\* Mutant: the block that was taken over stays.
CrossTwice(pages, p) ==
  IF ~ Crosses(pages[p], pages[p + 1]) THEN pages
  ELSE [pages EXCEPT ![p] = TakesOver(@, pages[p + 1])]

CrossAt(pages, p) ==
  IF ~ Crosses(pages[p], pages[p + 1]) THEN pages
  ELSE [pages EXCEPT ![p] = TakesOver(@, pages[p + 1]), ![p + 1] = GivesAway(@)]

CrossedSoFar(pages) ==
  LET merged[p \in 0 .. Len(pages)] ==
        IF p = 0 THEN pages ELSE IF p = Len(pages) THEN merged[p - 1] ELSE CrossAt(merged[p - 1], p)
  IN merged

Staying(cells) == Where(cells, {k \in DOMAIN cells : ~ cells[k].gone})
CrossPages(pages) ==
  [p \in DOMAIN pages |-> Staying(CrossedSoFar(pages)[Len(pages)][p])]

\* run_all_post_processing_worker: the copies go the same way as the cells.
PostProcessed(pages) == CrossPages([p \in DOMAIN pages |-> MergedPage(pages[p])])
Kept(d) == [p \in DOMAIN d.pages |-> Taken(d, p)]
Originals(d) == d.pages

-----------------------------------------------------------------------------
(* _prepare_cells_for_md                                                   *)

IsShown(cell, options) ==
  /\ cell.category = "Page-header" => options.header
  /\ cell.category = "Page-footer" => options.footer
  /\ cell.category = "Footnote" => options.footnote
Shown(cells, options) == Where(cells, {k \in DOMAIN cells : IsShown(cells[k], options)})

Rendered(cells, options) ==
  LET once == MergedPage(cells)
      shown == Shown(once, options)
  IN IF Len(shown) < Len(once) THEN MergedPage(shown) ELSE shown

Markdown(pages, options) ==
  LET out == PostProcessed(pages)
  IN FlattenSeq([p \in DOMAIN out |-> WordsOf(Rendered(out[p], options))])

-----------------------------------------------------------------------------
(* No text that was not asked to go is lost, doubled or moved past other   *)
(* text: the blocks of text still say what they said, in their order, and  *)
(* the other blocks are as they were.                                      *)
Texts(all) == FlattenSeq([p \in DOMAIN all |-> WordsOf(Where(all[p], TextPlaces(all[p])))])
Others(all) == [p \in DOMAIN all |-> Where(all[p], DOMAIN all[p] \ TextPlaces(all[p]))]
Faithful(pages) ==
  LET out == PostProcessed(pages)
  IN Texts(out) = Texts(pages) /\ Others(out) = Others(pages)

\* Writing a page leaves out what the options leave out and nothing else, though
\* it merges again what stands next to each other now.
WrittenWhole(pages, options) ==
  LET out == PostProcessed(pages)
  IN \A p \in DOMAIN out :
       WordsOf(Rendered(out[p], options)) = WordsOf(Shown(out[p], options))

\* A page between two others with one block of text may be taken over whole; what
\* follows it is then put into the block that goes.
Apart(pages) ==
  \A p \in 2 .. Len(pages) - 1 :
    LET cells == MergedPage(pages[p]) IN \A k \in DOMAIN cells : TextPlaces(cells) # {k}

\* What the filtered Markdown says is in the Markdown of what was read.
FilteredIsPart(d) ==
  ToSet(Markdown(Kept(d), d.options)) \subseteq ToSet(Markdown(Originals(d), d.options))

TextIsKept(d) ==
  /\ \A pages \in {Kept(d), Originals(d)} :
       WrittenWhole(pages, d.options) /\ (Apart(pages) => Faithful(pages))
  /\ Apart(Kept(d)) /\ Apart(Originals(d)) => FilteredIsPart(d)
=============================================================================
