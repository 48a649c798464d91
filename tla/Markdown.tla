------------------------------ MODULE Markdown ------------------------------
(***************************************************************************)
(* The report as labels of the results window: render_markdown of          *)
(* crates/am5-spd-diag-notify/src/markdown.rs, event by event.             *)
(*                                                                         *)
(* The parser (pulldown-cmark) is the environment: headings, paragraphs,   *)
(* quotes, lists, code, raw HTML, rules and tables, in any order and, but  *)
(* for the text of a leaf, in each other.  Markup is a sequence of tokens: *)
(* inline tags, of which one kind stands for emphasis, strong,             *)
(* strikethrough and links and does not nest, and text.  Colours, escapes, *)
(* breaks and bullets are left out; the lines of code and of the e820 map  *)
(* are one text each.                                                      *)
(*                                                                         *)
(* A block's label is shown once.  What ends it early (a list or code in   *)
(* an item, a line of the e820 map in a paragraph) leaves the block spent: *)
(* text that still comes in it has no label to go to.                      *)
(***************************************************************************)
EXTENDS Naturals, Sequences, FiniteSets

CONSTANTS
  MaxEvents,  \* bound: events of a document before it is closed
  MaxDepth,   \* bound: nesting
  RawHtml     \* documents have raw HTML, which the ticket subset has not

ASSUME BoundsAssumption ==
  MaxEvents \in Nat /\ MaxDepth \in Nat /\ RawHtml \in BOOLEAN

VARIABLES
  open,    \* the parser's open elements, innermost first
  events,  \* events so far
  block,   \* the number of the last block begun
  kind,    \* none, heading, paragraph, item: what `markup` will be shown as
  markup,  \* what will be shown
  cell,    \* text of the table cell, once in a table
  cells,   \* finished cells of the table
  shown,   \* labels the last event put into the window
  dropped, \* history: what the last event threw away
  torn     \* history: a line of the e820 map came within inline text, and what
           \* it tore apart is not all shown yet

parserVars == <<open, events, block>>
paneVars   == <<kind, markup, shown, dropped>>
tableVars  == <<cell, cells>>
vars       == <<parserVars, paneVars, tableVars, torn>>

\* The blocks that get a label, as they begin and once it has been shown.
Fresh == {"heading", "paragraph", "item"}
Stale == [heading |-> "heading*", paragraph |-> "paragraph*", item |-> "item*"]

Tags  == Fresh \union {"heading*", "paragraph*", "item*"} \union
         {"doc", "inline", "quote", "list", "code", "table", "cell"}
Token == [tag : {"open", "close", "text"}, of : Nat]

TypeOK ==
  /\ open \in Seq(Tags)
  /\ events \in 0..MaxEvents
  /\ block \in Nat
  /\ kind \in {"none", "heading", "paragraph", "item"}
  /\ markup \in Seq(Token)
  /\ cell \in Seq(Token)
  /\ cells \subseteq Seq(Token)
  /\ shown \subseteq Seq(Token)
  /\ dropped \in Seq(Token)
  /\ torn \in BOOLEAN

Init ==
  /\ open = <<"doc">>
  /\ events = 0
  /\ block = 0
  /\ kind = "none"
  /\ markup = <<>>
  /\ cell = <<>>
  /\ cells = {}
  /\ shown = {}
  /\ dropped = <<>>
  /\ torn = FALSE

-----------------------------------------------------------------------------
(* The parser: which element may come next. *)

\* The innermost open element; "end" after the document.
Inner == IF open = <<>> THEN "end" ELSE Head(open)

Flow   == {"doc", "quote", "item", "item*"}
Inline == Fresh \union {"heading*", "paragraph*", "item*", "inline", "cell"}

\* Every block still open has had its label.
Spent == [i \in DOMAIN open |-> IF open[i] \in Fresh THEN Stale[open[i]] ELSE open[i]]

Mends == torn' = (torn /\ (markup # <<>> \/ Inner = "inline"))

Opens(tag, where, within) ==
  /\ events < MaxEvents
  /\ Len(open) < MaxDepth
  /\ Inner \in where
  /\ events' = events + 1
  /\ open' = <<tag>> \o within
  /\ Mends

Closes(tags) ==
  /\ Inner \in tags
  /\ open' = Tail(open)
  /\ Mends
  /\ UNCHANGED <<events, block>>

Says == events < MaxEvents /\ events' = events + 1 /\ UNCHANGED block

-----------------------------------------------------------------------------
(* The pane. *)

\* Text belongs to the block it stands in; 0 if that block's label is gone.
InBlock == \E i \in DOMAIN open : open[i] \in Fresh \union {"code", "cell"}

Text == [tag |-> "text", of |-> IF InBlock THEN block ELSE 0]
Tag(t) == [tag |-> t, of |-> 0]

\* append_markup_label shows nothing for an empty text.
Labels(m) == IF m = <<>> THEN {} ELSE {m}

\* MUTANT: the kind of the block outlives it.
FlushKeepsKind ==
  /\ markup' = <<>>
  /\ kind' = kind
  /\ shown' = IF kind = "none" THEN {} ELSE Labels(markup)
  /\ dropped' = IF kind = "none" THEN markup ELSE <<>>

\* flush_markup: shown as what the block is; without a block, thrown away.
Flush ==
  /\ markup' = <<>>
  /\ kind' = "none"
  /\ shown' = IF kind = "none" THEN {} ELSE Labels(markup)
  /\ dropped' = IF kind = "none" THEN markup ELSE <<>>

\* start_block.
StartBlock(next) ==
  /\ markup' = IF kind = "none" THEN markup ELSE <<>>
  /\ kind' = next
  /\ shown' = IF kind = "none" THEN {} ELSE Labels(markup)
  /\ dropped' = <<>>

Pushes(token) ==
  /\ markup' = Append(markup, token)
  /\ shown' = {}
  /\ dropped' = <<>>
  /\ UNCHANGED kind

Quiet == shown' = {} /\ dropped' = <<>> /\ UNCHANGED <<kind, markup>>

-----------------------------------------------------------------------------
(* The events. *)

StartHeading ==
  /\ Opens("heading", Flow, Spent)
  /\ block' = block + 1
  /\ StartBlock("heading")
  /\ UNCHANGED tableVars

EndHeading == Closes({"heading", "heading*"}) /\ Flush /\ UNCHANGED tableVars

\* The paragraphs of an item go into the item's label, those of its quotes too.
StartParagraph ==
  /\ Opens("paragraph", Flow, open)
  /\ block' = IF InBlock THEN block ELSE block + 1
  /\ IF kind = "none" THEN StartBlock("paragraph") ELSE Quiet
  /\ UNCHANGED tableVars

EndParagraph ==
  /\ Closes({"paragraph", "paragraph*"})
  /\ IF kind = "paragraph" THEN Flush ELSE Quiet
  /\ UNCHANGED tableVars

StartInline ==
  /\ Opens("inline", Inline \ {"inline"}, open)
  /\ Pushes(Tag("open"))
  /\ UNCHANGED <<block, tableVars>>

\* MUTANT: the end of an inline element opens another.
EndInlineOpens == Closes({"inline"}) /\ Pushes(Tag("open")) /\ UNCHANGED tableVars

EndInline == Closes({"inline"}) /\ Pushes(Tag("close")) /\ UNCHANGED tableVars

StartQuote ==
  /\ Opens("quote", Flow, open)
  /\ Quiet
  /\ UNCHANGED <<block, tableVars>>

EndQuote ==
  /\ Closes({"quote"})
  /\ IF kind = "paragraph" THEN Flush ELSE Quiet
  /\ UNCHANGED tableVars

StartList ==
  /\ Opens("list", Flow, Spent)
  /\ IF kind \in {"item", "paragraph"} THEN Flush ELSE Quiet
  /\ UNCHANGED <<block, tableVars>>

EndList == Closes({"list"}) /\ Quiet /\ UNCHANGED tableVars

StartItem ==
  /\ Opens("item", {"list"}, Spent)
  /\ block' = block + 1
  /\ StartBlock("item")
  /\ UNCHANGED tableVars

EndItem == Closes({"item", "item*"}) /\ Flush /\ UNCHANGED tableVars

\* append_code_lines: a label for each line.
CodeLines == {<<Text>>}

CodeBlock ==
  /\ Opens("code", Flow, Spent)
  /\ block' = block + 1
  /\ Flush
  /\ UNCHANGED tableVars

EndCodeBlock ==
  /\ Closes({"code"})
  /\ shown' = CodeLines
  /\ dropped' = <<>>
  /\ UNCHANGED <<kind, markup, tableVars>>

StartTable ==
  /\ Opens("table", Flow, Spent)
  /\ Flush
  /\ cells' = {}
  /\ UNCHANGED <<block, cell>>

\* emit_table: a label for each cell.
Grid == cells \ {<<>>}

EndTable ==
  /\ Closes({"table"})
  /\ shown' = Grid
  /\ dropped' = <<>>
  /\ UNCHANGED <<kind, markup, tableVars>>

StartCell ==
  /\ Opens("cell", {"table"}, open)
  /\ block' = block + 1
  /\ cell' = <<>>
  /\ Quiet
  /\ UNCHANGED cells

EndCell ==
  /\ Closes({"cell"})
  /\ cells' = cells \union {cell}
  /\ cell' = <<>>
  /\ Quiet

Rule ==
  /\ Says
  /\ Inner \in Flow
  /\ Flush
  /\ open' = Spent
  /\ Mends
  /\ UNCHANGED tableVars

InCell == \E i \in DOMAIN open : open[i] = "cell"

\* Event::Text and Event::Code of ordinary text, and Event::InlineHtml.
PlainText ==
  /\ Says
  /\ Inner \in Inline
  /\ IF InCell THEN cell' = Append(cell, Text) /\ Quiet
               ELSE Pushes(Text) /\ UNCHANGED cell
  /\ Mends
  /\ UNCHANGED <<open, cells>>

\* Event::Html: no event of its block is handled, and its text joins whatever
\* is being gathered.
HtmlBlock ==
  /\ RawHtml
  /\ Says
  /\ Inner \in Flow
  /\ Pushes(Text)
  /\ Mends
  /\ UNCHANGED <<open, tableVars>>

\* Event::Text with a line of the e820 map.  What was gathered is shown first;
\* so is an introduction on the line itself (split_e820_text), as a paragraph
\* if there is no block.
E820Text(intro) ==
  /\ Says
  /\ ~InCell
  /\ Inner \in Inline
  /\ LET said  == IF intro THEN Append(markup, Text) ELSE markup
         label == intro \/ kind # "none"
     IN  /\ shown' = CodeLines \union (IF label THEN Labels(said) ELSE {})
         /\ dropped' = IF label THEN <<>> ELSE said
  /\ markup' = <<>>
  /\ kind' = "none"
  /\ open' = Spent
  /\ torn' = (Inner = "inline" \/ (torn /\ markup # <<>>))
  /\ UNCHANGED tableVars

EndDocument ==
  /\ Closes({"doc"})
  /\ Flush
  /\ UNCHANGED tableVars

Next ==
  \/ StartHeading \/ EndHeading
  \/ StartParagraph \/ EndParagraph
  \/ StartInline \/ EndInline
  \/ StartQuote \/ EndQuote
  \/ StartList \/ EndList
  \/ StartItem \/ EndItem
  \/ CodeBlock \/ EndCodeBlock
  \/ StartTable \/ EndTable
  \/ StartCell \/ EndCell
  \/ Rule
  \/ PlainText
  \/ HtmlBlock
  \/ \E intro \in BOOLEAN : E820Text(intro)
  \/ EndDocument

Spec == Init /\ [][Next]_vars

-----------------------------------------------------------------------------

Count(m, k, tag) == Cardinality({i \in 1..k : m[i].tag = tag})

\* Pango shows a label only if its tags nest.
Balanced(m) ==
  /\ \A k \in DOMAIN m : Count(m, k, "close") <= Count(m, k, "open")
  /\ Count(m, Len(m), "close") = Count(m, Len(m), "open")

OfOneBlock(m) ==
  \A i, j \in DOMAIN m :
    m[i].tag = "text" /\ m[j].tag = "text" /\ m[i].of # 0 /\ m[j].of # 0
      => m[i].of = m[j].of

(***************************************************************************)
(* An inline tag is closed in the label it was opened in, however blocks,  *)
(* lists, tables, code and raw HTML follow and hold each other, unless a   *)
(* line of the e820 map came between the two (render_markdown): then the   *)
(* labels that share the pieces are the only ones that do not nest.        *)
(***************************************************************************)
LabelsBalanced == torn \/ \A m \in shown : Balanced(m)

(***************************************************************************)
(* The text of a block whose label is still to come is shown, and in a     *)
(* label with no text of another such block (flush_markup, start_block).   *)
(***************************************************************************)
TextStaysInBlock ==
  /\ \A m \in shown : OfOneBlock(m)
  /\ \A i \in DOMAIN dropped : dropped[i].tag = "text" => dropped[i].of = 0

(***************************************************************************)
(* What the comment at the head of markdown.rs says of a block, "Blocks    *)
(* become GTK labels", of the labels: markup that GTK can show.            *)
(***************************************************************************)
BlocksBecomeLabels == \A m \in shown : Balanced(m)

(***************************************************************************)
(* And of the blocks: the text of none is thrown away.                     *)
(***************************************************************************)
BlocksAreShown == \A i \in DOMAIN dropped : dropped[i].tag # "text"
=============================================================================
