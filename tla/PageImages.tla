------------------------------ MODULE PageImages ------------------------------
(***************************************************************************)
(* The images of a document and the Markdown files that link to them       *)
(* (output/markdown_writer.py, assets.py and rendering.py).  Pages are     *)
(* rendered some ahead of the one that is written, which saves their       *)
(* images.  Then near duplicates, a logo on every page say, are taken out  *)
(* of the file, or of both files, and images nobody links to are removed;  *)
(* the images of the page layouts become one PDF.  Every step may fail and *)
(* the process may die between any two.                                    *)
(*                                                                         *)
(* A Markdown file is the set of images it links to, or None.  An image    *)
(* saved by this run has a name of its own: names carry the page and avoid *)
(* what is there.  Another Markdown file, old, may be in the directory.    *)
(***************************************************************************)
EXTENDS Integers, FiniteSets, Sequences

CONSTANTS Documents,   \* what the pages show, see DocumentOf
          Options,     \* generate_origin_md, filter_duplicates
          Window,      \* pages rendered ahead
          Threshold    \* images of a group of duplicates

VARIABLE output

\* Per page the images of the cells as filtered and as read; which images look
\* alike; the order in which a set of names is gone through; the old file's.
DocumentOf(pages, near, order, old) == [pages |-> pages, near |-> near, order |-> order, old |-> old]

None == {"no file"}

OutputInit ==
  \E d \in Documents, o \in Options :
    output = [doc |-> d, options |-> o, at |-> "pages", written |-> 0, rendered |-> {},
              main |-> {}, origin |-> IF o.origin THEN {} ELSE None,
              images |-> d.old, layouts |-> DOMAIN d.pages, pdf |-> {},
              doomed |-> {}, unread |-> {}, swept |-> FALSE]

Doc == output.doc
PageCount == Len(Doc.pages)
At(step) == output.at = step

-----------------------------------------------------------------------------
(* Pages.                                                                  *)

\* _generate_md_for_one_page, _process_base64_images_with_custom_naming: what was
\* saved for the filtered text is used again for the text as read.
Render ==
  /\ At("pages")
  /\ \E p \in 1 .. PageCount \ output.rendered :
       /\ p <= output.written + Window
       /\ output' = [output EXCEPT
            !.rendered = @ \cup {p},
            !.images = @ \cup Doc.pages[p].main
                         \cup IF output.options.origin THEN Doc.pages[p].read ELSE {}]

WriteNext ==
  /\ At("pages") /\ output.written + 1 \in output.rendered
  /\ LET page == Doc.pages[output.written + 1]
     IN output' = [output EXCEPT
          !.written = @ + 1, !.main = @ \cup page.main,
          !.origin = IF @ = None THEN None ELSE @ \cup page.read]

AllWritten ==
  /\ At("pages") /\ output.written = PageCount
  /\ output' = [output EXCEPT !.at = IF output.options.filter THEN "clean" ELSE "layout"]

-----------------------------------------------------------------------------
(* Duplicates.                                                             *)

\* _find_duplicate_filenames: each name not yet in a group opens one, with the
\* later names like it; the images of a large group all go.
GroupOf(k, left) ==
  {Doc.order[k]} \cup
  {f \in left : \E j \in k + 1 .. Len(Doc.order) : Doc.order[j] = f /\ {f, Doc.order[k]} \in Doc.near}

AddGroup(found, k, refs) ==
  LET group == GroupOf(k, refs \ found.visited)
  IN IF Doc.order[k] \notin refs \ found.visited THEN found
     ELSE [visited |-> found.visited \cup group,
           go |-> IF Cardinality(group) >= Threshold THEN found.go \cup group ELSE found.go]

Grouped(refs) ==
  LET found[k \in 0 .. Len(Doc.order)] ==
        IF k = 0 THEN [visited |-> {}, go |-> {}] ELSE AddGroup(found[k - 1], k, refs)
  IN found

Duplicates(refs) ==
  IF Cardinality(refs) < Threshold THEN {} ELSE Grouped(refs)[Len(Doc.order)].go

Held(refs) == refs \cap output.images

\* The new file takes the place of the old in one step; only then may images go.
CleanMain ==
  /\ At("clean")
  /\ LET go == Duplicates(Held(output.main))
     IN output' = [output EXCEPT
          !.main = @ \ go, !.doomed = go,
          !.at = IF output.options.origin THEN "clean origin" ELSE "delete"]

\* Files are removed one by one; one that cannot be removed stays.
Delete ==
  /\ At("delete")
  /\ \E removed \in SUBSET output.doomed :
       output' = [output EXCEPT !.images = @ \ removed, !.at = "layout"]

CleanOrigin ==
  /\ At("clean origin")
  /\ output' = [output EXCEPT !.origin = @ \ Duplicates(Held(@)), !.at = "sweep"]

\* Mutant: what the filtered file no longer links to goes, whatever the other says.
SweepOfMain ==
  /\ At("sweep")
  /\ output' = [output EXCEPT !.images = @ \cap output.main, !.swept = TRUE, !.at = "layout"]

\* _cleanup_unused_images: a file that cannot be read links to nothing.
Sweep ==
  /\ At("sweep")
  /\ \E unread \in SUBSET {"main", "origin"} :
       LET linked == (IF "main" \in unread THEN {} ELSE output.main)
                       \cup (IF "origin" \in unread THEN {} ELSE output.origin)
       IN \E kept \in SUBSET (output.images \ linked) :
            output' = [output EXCEPT
              !.images = (output.images \cap linked) \cup kept,
              !.unread = unread, !.swept = TRUE, !.at = "layout"]

\* The filter of duplicates gives up with a warning.
GiveUpFiltering ==
  /\ output.at \in {"clean", "delete", "clean origin", "sweep"}
  /\ output' = [output EXCEPT !.at = "layout"]

-----------------------------------------------------------------------------
(* The layouts of the pages, saved with their results: the images go when  *)
(* the PDF of all of them is saved.                                        *)

CombineLayouts ==
  /\ At("layout")
  /\ output' = [output EXCEPT !.pdf = output.layouts, !.at = "combined"]

RemoveLayouts ==
  /\ At("combined")
  /\ \E kept \in SUBSET output.layouts :
       output' = [output EXCEPT !.layouts = kept, !.at = "done"]

\* An error that nobody catches, or the end of the process.
Break ==
  /\ output.at \notin {"done", "broken"}
  /\ output' = [output EXCEPT !.at = "broken"]

OutputNext ==
  \/ Render \/ WriteNext \/ AllWritten \/ CleanMain \/ Delete \/ CleanOrigin \/ Sweep
  \/ GiveUpFiltering \/ CombineLayouts \/ RemoveLayouts \/ Break

-----------------------------------------------------------------------------
(* At any time, so also where a run broke off, an image that a Markdown    *)
(* file links to is there: those of this run, unless the file could not be *)
(* read when unused images were removed, and the old one, unless they      *)
(* were removed.  A layout is an image or a page of the PDF.               *)
LinksHold ==
  /\ "main" \notin output.unread => output.main \subseteq output.images
  /\ output.origin # None /\ "origin" \notin output.unread => output.origin \subseteq output.images
  /\ ~ output.swept => Doc.old \subseteq output.images
  /\ 1 .. PageCount \subseteq output.layouts \cup output.pdf
=============================================================================
