----------------------------- MODULE SectionParse -----------------------------
(***************************************************************************)
(* From the XML elements of one section of a filing to the chunks that are *)
(* embedded: extract_sections, collect_blocks and chunk_blocks in          *)
(* src/processing.                                                         *)
(*                                                                         *)
(* Collecting walks the elements once, with the open headings on a stack   *)
(* and up to three labels waiting for what they belong to: a caption for   *)
(* the next tables, a unit or period for the next table, a short name for  *)
(* the next heading.  If it takes too long it starts over in plain mode.   *)
(* Chunking then packs the blocks: small neighbours share a chunk, larger  *)
(* tables and long paragraphs are cut.                                     *)
(*                                                                         *)
(* A paragraph is a sequence of parts as the code recognizes them, text or *)
(* heading; which strings are headings, labels or units is a property of   *)
(* the part or table.  Text is a number of size units.                     *)
(*                                                                         *)
(* A part is [kind, size, label] for text, where label says that it ends   *)
(* in a period label, or [kind, level, name, located, form, size] for a    *)
(* heading: level 0 is a name in brackets, 1 a roman numeral, 2 a number,  *)
(* 3 a letter, 4 and 5 a number and a letter in parentheses; located, that *)
(* the text of the heading is found again in the paragraph.  A table has a *)
(* role: "data", one of the labels "unit" and "period", text that ends in  *)
(* a unit ("suffix"), a period label for what follows ("forward"), which   *)
(* may end in its unit as well ("forward unit"), or "empty".               *)
(***************************************************************************)
EXTENDS Naturals, Sequences, SequencesExt

CONSTANTS
  Sections,    \* the sections to parse: sequences of elements
  Policies,    \* the kinds of section, by path: "open", "risk", "notes", "mdna"
  ChunkSize,   \* chunk_size
  None

IsPart(p) ==
  /\ p.size \in Nat
  /\ \/ p.kind = "text" /\ p.label \in BOOLEAN
     \/ /\ p.kind = "heading" /\ p.level \in 0..5 /\ p.located \in BOOLEAN
        /\ p.form \in {"short", "long", "dated"}

IsGrid(t) ==
  /\ t.size \in Nat
  /\ t.role \in {"data", "unit", "period", "suffix", "forward", "forward unit", "empty"}

IsElement(e) ==
  \/ e.tag = "P" /\ e.parts \in Seq(Range(e.parts)) /\ \A p \in Range(e.parts) : IsPart(p)
  \/ e.tag = "TABLE" /\ IsGrid(e)
  \/ e.tag = "TABLE-GROUP" /\ e.tables \in Seq(Range(e.tables)) /\ \A t \in Range(e.tables) : IsGrid(t)

ASSUME ParseConstants ==
  /\ \A s \in Sections : s \in Seq(Range(s)) /\ \A e \in Range(s) : IsElement(e)
  /\ Policies \subseteq {"open", "risk", "notes", "mdna"}
  /\ ChunkSize \in Nat \ {0}
  /\ None \notin Nat \X Nat

VARIABLES
  elements, policy,   \* the section
  phase,     \* "collect", "link", "chunk", "done"
  mode,      \* "structured" or "plain": how paragraphs are taken apart
  deadline,  \* whether the parse budget still runs
  pos,       \* elements taken up
  todo,      \* what is left of the current element
  stack,     \* heading_stack
  sources,   \* heading_sources: where each heading of the stack was found
  caption,   \* pending_table_heading, with its place
  hint,      \* pending_table_context_hint: the place it was found at
  label,     \* pending_section_label
  blocks,    \* the blocks collected
  prefixes,  \* the blocks that are the caption of the next block
  taken,     \* blocks chunked
  pending,   \* pending_blocks, each with the context it was given
  nearest,   \* last_paragraph_context, its heading and its scope
  chunks

section == <<elements, policy>>
labels  == <<caption, hint, label>>
heads   == <<stack, sources>>
packing == <<prefixes, taken, pending, nearest, chunks>>
vars    == <<section, phase, mode, deadline, pos, todo, heads, labels, blocks, packing>>

-----------------------------------------------------------------------------
(* Elements and their parts.  A place is <<element, part>>.                *)

IsTable(e) == e.tag \in {"TABLE", "TABLE-GROUP"}

Bracket(h) == h.level = 0

(* Standalone labels: small tables that only name a period or a unit.      *)
HintTable(t) == t.role \in {"unit", "period"}

Total(sizes) == FoldLeft(LAMBDA sum, size : sum + size, 0, sizes)

(* How a paragraph is read.  Structured: leading headings, then the rest.  *)
(* Plain: headings mark where text is under them, and stay part of it; a   *)
(* paragraph that is one name in brackets is a heading only.               *)
Leading(e) ==
  LET all == \A j \in DOMAIN e.parts : e.parts[j].kind = "heading"
      first == CHOOSE j \in 0..Len(e.parts) :
                 /\ \A k \in 1..j : e.parts[k].kind = "heading"
                 /\ j < Len(e.parts) => e.parts[j + 1].kind = "text"
  IN  IF all THEN Len(e.parts) ELSE first

Structured(e, i) ==
  [j \in DOMAIN e.parts |->
     IF e.parts[j].kind = "text"
     THEN [do |-> "text", at |-> <<<<i, j>>>>, size |-> e.parts[j].size,
           whole |-> Len(e.parts) = 1, forward |-> e.parts[j].label]
     ELSE [do |-> IF j <= Leading(e) THEN "lead" ELSE "heading",
           head |-> e.parts[j], at |-> <<i, j>>,
           alone |-> Len(e.parts) = 1, body |-> Leading(e) < Len(e.parts)]]

OnlyName(e) == Len(e.parts) = 1 /\ e.parts[1].kind = "heading" /\ Bracket(e.parts[1])

(* The text from part j up to the next located heading.                    *)
Under(e, i, j) ==
  LET stops == {k \in DOMAIN e.parts : k > j /\ e.parts[k].kind = "heading" /\ e.parts[k].located}
      end == IF stops = {} THEN Len(e.parts) ELSE (CHOOSE k \in stops : \A m \in stops : k <= m) - 1
      size == Total([k \in 1..(end - j + 1) |-> e.parts[j + k - 1].size])
  IN  [do |-> "text", at |-> [k \in 1..(end - j + 1) |-> <<i, j + k - 1>>],
       size |-> size, whole |-> j = 1 /\ end = Len(e.parts),
       forward |-> j = end /\ e.parts[j].kind = "text" /\ e.parts[j].label]

Plain(e, i) ==
  IF OnlyName(e) THEN Structured(e, i)
  ELSE LET found == {j \in DOMAIN e.parts : e.parts[j].kind = "heading" /\ e.parts[j].located}
           from(j) == IF j \in found
                      THEN << [do |-> IF j = 1 THEN "lead" ELSE "heading", head |-> e.parts[j],
                               at |-> <<i, j>>, alone |-> FALSE, body |-> TRUE], Under(e, i, j) >>
                      ELSE IF j = 1 THEN << Under(e, i, j) >> ELSE <<>>
       IN  FlattenSeq([j \in DOMAIN e.parts |-> from(j)])

Tables(e, i) ==
  LET ts == IF e.tag = "TABLE" THEN <<e>> ELSE e.tables
  IN  [j \in DOMAIN ts |-> [do |-> "table", table |-> ts[j], at |-> <<i, j>>,
                           ends |-> IF e.tag = "TABLE-GROUP" THEN j = Len(ts) ELSE ~HintTable(ts[j])]]

Items(e, i, m) ==
  IF IsTable(e) THEN Tables(e, i)
  ELSE IF m = "plain" THEN Plain(e, i) ELSE Structured(e, i)

-----------------------------------------------------------------------------
(* Headings.  Level 0 is a name in brackets, 1 to 5 are numbered.          *)

(* Some sections drop a name when a heading follows that is not below it.  *)
Prepared(s, h) ==
  IF s # <<>> /\ Bracket(Last(s)) /\ (policy = "mdna" \/ (policy = "notes" /\ h.level \notin {4, 5}))
  THEN Front(s) ELSE s

Names(s) == {i \in DOMAIN s : Bracket(s[i])}

(* Where the last name stands in the stack; it is never deeper than one.   *)
NameIn(s) == CHOOSE i \in Names(s) : \A j \in Names(s) : j <= i

(* The longest start of s, keeping its first floor headings, whose last    *)
(* heading is above the level.                                             *)
Above(s, level, floor) ==
  LET keep == CHOOSE n \in floor..Len(s) :
                /\ n > floor => s[n].level < level
                /\ \A k \in (n + 1)..Len(s) : s[k].level >= level
  IN  SubSeq(s, 1, keep)

\* Mutant: a name closes nothing that is open.
PushHeading_NamesNest(s, h) ==
  LET open == Prepared(s, h)
  IN  Append(IF Bracket(h) THEN open ELSE Above(open, h.level, Len(open)), h)

(* _push_heading: a name replaces its peer; a numbered heading closes what *)
(* is not above it, within the name it stands under - unless the name      *)
(* itself stands under a heading that it closes.                           *)
PushHeading(s, h) ==
  LET open == Prepared(s, h)
      n == NameIn(open)
      outer == SubSeq(open, 1, n - 1)
      closes == \E i \in DOMAIN outer : outer[i].level >= h.level
  IN  IF Bracket(h) THEN Append(IF Names(open) = {} THEN open ELSE outer, h)
      ELSE IF Names(open) = {} THEN Append(Above(open, h.level, 0), h)
      ELSE IF closes THEN Append(Above(outer, h.level, 0), h)
      ELSE Append(Above(open, h.level, n), h)

(* _soft_heading_path: the first, any name in between, and the last.       *)
HeadingPath(s) ==
  LET shown == {i \in DOMAIN s : i \in {1, Len(s)} \/ Bracket(s[i])}
      names == [i \in DOMAIN s |-> IF i \in shown THEN <<s[i].name>> ELSE <<>>]
  IN  FlattenSeq(names)

(* heading_scope_key: the places of the headings that could be located.    *)
ScopeKey == FoldLeft(LAMBDA key, at : IF at = None THEN key ELSE Append(key, at), <<>>, sources)

(* _classify_bracket_heading *)
Role(h, body, beforeTable) ==
  IF ~Bracket(h) THEN "not_bracket"
  ELSE IF h.form = "dated" THEN "discard"
  ELSE IF ~body /\ beforeTable THEN "table_label"
  ELSE IF policy # "open" /\ h.form = "short" THEN "defer_section_label"
  ELSE "section_label"

(* Numbered headings that make a deferred name a heading above them.       *)
Promotes(h) ==
  \/ policy = "notes" /\ h.level \in {4, 5}
  \/ policy = "risk" /\ h.level \in {3, 4, 5}

-----------------------------------------------------------------------------
Init ==
  /\ elements \in Sections /\ policy \in Policies
  /\ phase = "collect" /\ deadline = TRUE
  /\ mode \in (IF policy = "mdna" THEN {"structured"} ELSE {"structured", "plain"})
  /\ pos = 0 /\ todo = <<>>
  /\ stack = <<>> /\ sources = <<>>
  /\ caption = None /\ hint = None /\ label = None
  /\ blocks = <<>> /\ prefixes = {}
  /\ taken = 0 /\ pending = <<>> /\ chunks = <<>>
  /\ nearest = [block |-> 0, heading |-> <<>>, scope |-> <<>>]

(* A paragraph with content ends what waits for a table.                   *)
NextElement ==
  /\ phase = "collect" /\ todo = <<>> /\ pos < Len(elements)
  /\ LET e == elements[pos + 1]
     IN  /\ todo' = Items(e, pos + 1, mode)
         /\ IF e.tag = "P" /\ e.parts # <<>>
            THEN caption' = None /\ hint' = None
            ELSE UNCHANGED <<caption, hint>>
  /\ pos' = pos + 1
  /\ UNCHANGED <<section, phase, mode, deadline, heads, label, blocks, packing>>

Item(kind) == phase = "collect" /\ todo # <<>> /\ Head(todo).do = kind

Located(item) == IF item.head.located THEN item.at ELSE None

BeforeTable == pos < Len(elements) /\ IsTable(elements[pos + 1])

(* push_located_heading: the places follow the stack.                      *)
Push(s, src, h, place) ==
  LET next == PushHeading(s, h)
  IN  [stack |-> next, sources |-> Append(SubSeq(src, 1, Len(next) - 1), place)]

(* A heading that counts, after the deferred name it may be standing under. *)
OpenHeading(item) ==
  LET h == item.head
      entry == [level |-> h.level, name |-> h.name, at |-> item.at]
      under == IF label # None /\ Promotes(h) THEN Push(stack, sources, label.head, label.place)
               ELSE [stack |-> stack, sources |-> sources]
      now == Push(under.stack, under.sources, entry, Located(item))
  IN  stack' = now.stack /\ sources' = now.sources /\ label' = None

(* A leading heading.  A name alone before a table is its caption.         *)
LeadHeading ==
  /\ Item("lead")
  /\ LET item == Head(todo)
         h == item.head
         alone == item.alone /\ Bracket(h) /\ BeforeTable
         role == Role(h, item.body, BeforeTable)
     IN  \/ /\ alone
            /\ caption' = IF role = "table_label" THEN [name |-> h.name, at |-> item.at] ELSE caption
            /\ UNCHANGED <<heads, label>>
         \/ /\ ~alone /\ role = "discard"
            /\ UNCHANGED <<heads, caption, label>>
         \/ /\ ~alone /\ role = "defer_section_label"
            /\ label' = [head |-> [level |-> 0, name |-> h.name, at |-> item.at], place |-> Located(item)]
            /\ UNCHANGED <<heads, caption>>
         \/ /\ ~alone /\ role \notin {"discard", "defer_section_label"}
            /\ OpenHeading(item)
            /\ UNCHANGED caption
  /\ todo' = Tail(todo)
  /\ UNCHANGED <<section, phase, mode, deadline, pos, hint, blocks, packing>>

(* A heading inside the body of a paragraph.                               *)
BodyHeading ==
  /\ Item("heading")
  /\ LET item == Head(todo)
         role == Role(item.head, TRUE, FALSE)
     IN  \/ role = "discard" /\ UNCHANGED <<heads, label>>
         \/ /\ role = "defer_section_label"
            /\ label' = [head |-> [level |-> 0, name |-> item.head.name, at |-> item.at],
                         place |-> Located(item)]
            /\ UNCHANGED heads
         \/ role \notin {"discard", "defer_section_label"} /\ OpenHeading(item)
  /\ todo' = Tail(todo)
  /\ UNCHANGED <<section, phase, mode, deadline, pos, caption, hint, blocks, packing>>

(* emit_block: a block stands under the open headings; a table under its   *)
(* caption, if one waits, with the headings that enclose it kept beside.   *)
Block(type, at, size, whole, forward, named, unit) ==
  [type |-> type, at |-> at, size |-> size, whole |-> whole, forward |-> forward,
   heading |-> IF named = None THEN HeadingPath(stack) ELSE <<named.name>>,
   enclosing |-> HeadingPath(stack), scope |-> ScopeKey,
   open |-> [i \in DOMAIN stack |-> stack[i].at],
   caption |-> IF named = None THEN None ELSE named.at, hint |-> unit]

BodyText ==
  /\ Item("text")
  /\ LET item == Head(todo)
     IN  blocks' = Append(blocks, Block("paragraph", item.at, item.size, item.whole,
                                        item.forward, None, None))
  /\ label' = IF caption = None THEN None ELSE label
  /\ todo' = Tail(todo)
  /\ UNCHANGED <<section, phase, mode, deadline, pos, heads, caption, hint, packing>>

LeavesUnit(t) == HintTable(t) \/ t.role \in {"suffix", "forward unit"}

Forward(t) == t.role \in {"forward", "forward unit"}

\* Mutant: the unit stays for the tables after the next.
NextHint_Kept(t, at) == IF LeavesUnit(t) THEN at ELSE hint

(* A standalone label waits for the next table; any other table takes what *)
(* waits, and may itself end in a unit for the next.                       *)
NextHint(t, at) ==
  IF LeavesUnit(t) THEN at ELSE IF t.role = "empty" THEN hint ELSE None

ReadTable ==
  /\ Item("table")
  /\ LET item == Head(todo)
         t == item.table
     IN  /\ hint' = NextHint(t, item.at)
         /\ label' = IF item.ends THEN None ELSE label
         /\ blocks' = IF HintTable(t) \/ t.role = "empty" THEN blocks
                      ELSE Append(blocks, Block("table", <<item.at>>, t.size, TRUE,
                                                Forward(t), caption, hint))
  /\ todo' = Tail(todo)
  /\ UNCHANGED <<section, phase, mode, deadline, pos, heads, caption, packing>>

EndOfSection ==
  /\ phase = "collect" /\ todo = <<>> /\ pos = Len(elements)
  /\ phase' = "link"
  /\ UNCHANGED <<section, mode, deadline, pos, todo, heads, labels, blocks, packing>>

\* Mutant: the second attempt appends to what the first has collected.
Restarted_Appends == blocks

Restarted == <<>>

(* The budget is checked at every element: collecting starts over, once,   *)
(* in plain mode and without a budget.                                     *)
Timeout ==
  /\ phase \in {"collect", "link"} /\ deadline
  /\ phase' = "collect"
  /\ deadline' = FALSE /\ mode' = "plain"
  /\ pos' = 0 /\ todo' = <<>> /\ stack' = <<>> /\ sources' = <<>>
  /\ caption' = None /\ hint' = None /\ label' = None
  /\ blocks' = Restarted
  /\ UNCHANGED <<section, packing>>

-----------------------------------------------------------------------------
(* Linking: a label that is written right before a table with values       *)
(* becomes the context of that table.                                      *)

Parent(at) == IF elements[at[1]].tag = "TABLE-GROUP" THEN at[1] ELSE 0

(* Nothing but empty elements and units stands between two places of one parent.   *)
Adjacent(a, b) ==
  /\ Parent(a) = Parent(b)
  /\ IF Parent(a) = 0
     THEN \A i \in (a[1] + 1)..(b[1] - 1) :
            \/ elements[i].tag = "P" /\ elements[i].parts = <<>>
            \/ elements[i].tag = "TABLE" /\ elements[i].role \in {"unit", "empty"}
     ELSE \A j \in (a[2] + 1)..(b[2] - 1) : elements[a[1]].tables[j].role \in {"unit", "empty"}

Values(b) ==
  LET e == elements[b.at[1][1]]
      t == IF e.tag = "TABLE" THEN e ELSE e.tables[b.at[1][2]]
  IN  t.role = "data"

(* Block i may be the caption of the next block.                           *)
PrefixOf(i) ==
  /\ i \in DOMAIN blocks /\ i + 1 \in DOMAIN blocks
  /\ LET b == blocks[i]
         t == blocks[i + 1]
     IN  /\ b.forward /\ b.whole
         /\ t.type = "table" /\ Values(t)
         /\ b.scope = t.scope /\ b.enclosing = t.enclosing
         /\ Adjacent(b.at[1], t.at[1])

(* A label may still be refused: text outside of elements stands between,  *)
(* it is too long to be kept whole, or keeping it would evict a context    *)
(* the table already has.                                                  *)
Link ==
  /\ phase = "link"
  /\ phase' = "chunk"
  /\ prefixes' \in SUBSET {i \in DOMAIN blocks : PrefixOf(i)}
  /\ UNCHANGED <<section, mode, deadline, pos, todo, heads, labels, blocks,
                 taken, pending, nearest, chunks>>

-----------------------------------------------------------------------------
(* Chunking: chunk_blocks over the blocks in order.                        *)

Size(bs) == Total([k \in DOMAIN bs |-> blocks[bs[k].block].size])

IsTableBlock(p) == blocks[p.block].type = "table"

(* A chunk over the size is cut; the pieces after the first ("rest") carry *)
(* the context of a table only if it is a caption.                         *)
Cut(chunk, size, kept) ==
  IF size <= ChunkSize THEN << chunk >>
  ELSE << [chunk EXCEPT !.piece = "first"],
          [chunk EXCEPT !.piece = "rest", !.context = IF kept THEN @ ELSE 0] >>

FirstHeading(ps) ==
  LET named == {k \in DOMAIN ps : blocks[ps[k].block].heading # <<>>}
  IN  IF named = {} THEN <<>> ELSE blocks[ps[Min(named)].block].heading

TablesIn(ps) == {k \in DOMAIN ps : IsTableBlock(ps[k])}

(* flush_pending: the waiting blocks become one chunk, or the pieces of    *)
(* one, under the first heading among them and the scope of the first; the *)
(* first table among them gives it its records and its context.            *)
Flushed ==
  IF pending = <<>> THEN chunks
  ELSE LET first == IF TablesIn(pending) = {} THEN [block |-> 0, context |-> 0]
                    ELSE pending[Min(TablesIn(pending))]
           chunk == [of |-> [i \in DOMAIN pending |-> pending[i].block],
                     heading |-> FirstHeading(pending), scope |-> blocks[pending[1].block].scope,
                     table |-> first.block, context |-> first.context, piece |-> "whole"]
       IN  chunks \o Cut(chunk, Size(pending), FALSE)

Standalone(i) == blocks[i].type = "table" /\ blocks[i].size >= ChunkSize \div 2

\* Mutants: the places of the headings are not compared; a caption joins
\* what is waiting.
Breaks_NamesOnly(i) ==
  LET b == blocks[i]
  IN  \/ i \in prefixes
      \/ FirstHeading(pending) # b.heading
      \/ b.type = "table" /\ TablesIn(pending) # {}
      \/ Standalone(i)
      \/ Size(pending) + b.size > ChunkSize
Breaks_CaptionTrails(i) ==
  LET b == blocks[i]
  IN  \/ FirstHeading(pending) # b.heading
      \/ blocks[pending[1].block].scope # b.scope
      \/ b.type = "table" /\ TablesIn(pending) # {}
      \/ Standalone(i)
      \/ Size(pending) + b.size > ChunkSize

(* What makes the next block end the chunk that is waiting.                *)
Breaks(i) ==
  LET b == blocks[i]
  IN  \/ i \in prefixes
      \/ FirstHeading(pending) # b.heading
      \/ blocks[pending[1].block].scope # b.scope
      \/ b.type = "table" /\ TablesIn(pending) # {}
      \/ Standalone(i)
      \/ Size(pending) + b.size > ChunkSize

\* Mutant: a table takes the last paragraph wherever it stands.
Near_Anywhere(i) ==
  IF blocks[i].type = "paragraph"
  THEN [block |-> i, heading |-> blocks[i].enclosing, scope |-> blocks[i].scope]
  ELSE nearest

(* The last paragraph, for the tables under the same headings: a table     *)
(* under others forgets it.                                                *)
Near(i) ==
  LET b == blocks[i]
      here == [block |-> 0, heading |-> b.enclosing, scope |-> b.scope]
  IN  IF b.type = "paragraph" THEN [here EXCEPT !.block = i]
      ELSE IF nearest.heading # b.enclosing \/ nearest.scope # b.scope THEN here
      ELSE nearest

ChunkBlock ==
  /\ phase = "chunk" /\ taken < Len(blocks)
  /\ LET i == taken + 1
         b == blocks[i]
         linked == i - 1 \in prefixes
         context == IF b.type = "paragraph" THEN 0
                    ELSE IF linked THEN i - 1 ELSE Near(i).block
         done == IF pending # <<>> /\ Breaks(i) THEN Flushed ELSE chunks
         left == IF pending # <<>> /\ Breaks(i) THEN <<>> ELSE pending
         alone == [of |-> <<i>>, heading |-> b.heading, scope |-> b.scope, table |-> i,
                   context |-> context, piece |-> "whole"]
     IN  /\ nearest' = Near(i)
         /\ taken' = i
         /\ IF Standalone(i)
            THEN chunks' = done \o Cut(alone, b.size, linked) /\ pending' = left
            ELSE chunks' = done /\ pending' = Append(left, [block |-> i, context |-> context])
  /\ UNCHANGED <<section, phase, mode, deadline, pos, todo, heads, labels, blocks, prefixes>>

Finish ==
  /\ phase = "chunk" /\ taken = Len(blocks)
  /\ phase' = "done"
  /\ chunks' = Flushed /\ pending' = <<>>
  /\ UNCHANGED <<section, mode, deadline, pos, todo, heads, labels, blocks,
                 prefixes, taken, nearest>>

Next ==
  \/ NextElement \/ LeadHeading \/ BodyHeading \/ BodyText \/ ReadTable
  \/ EndOfSection \/ Timeout \/ Link \/ ChunkBlock \/ Finish

Spec == Init /\ [][Next]_vars

-----------------------------------------------------------------------------
(* Properties                                                              *)

(* The places of texts and tables with content, in document order.         *)
Kept(e, i) ==
  IF e.tag = "P"
  THEN FlattenSeq([j \in DOMAIN e.parts |-> IF e.parts[j].kind = "text" THEN << <<i, j>> >> ELSE <<>>])
  ELSE FlattenSeq([j \in DOMAIN Tables(e, i) |->
         IF Tables(e, i)[j].table.role \in {"unit", "period", "empty"} THEN <<>> ELSE << <<i, j>> >>])

Content == FlattenSeq([i \in DOMAIN elements |-> Kept(elements[i], i)])

(* Places without those of headings, which plain mode leaves in the text.  *)
Textual(at) == IsTable(elements[at[1]]) \/ elements[at[1]].parts[at[2]].kind = "text"

Only(ats) == FlattenSeq([k \in DOMAIN ats |-> IF Textual(ats[k]) THEN << ats[k] >> ELSE <<>>])

Chunked ==
  LET at(c) == IF c.piece = "rest" THEN <<>> ELSE FlattenSeq([k \in DOMAIN c.of |-> blocks[c.of[k]].at])
  IN  FlattenSeq([n \in DOMAIN chunks |-> at(chunks[n])])

\* Every text and every table with content is in exactly one chunk, in the
\* order of the filing, however its headings are read and whether or not the
\* parse budget ran out (collect_blocks, extract_sections, flush_pending).
TextKept == phase = "done" => Only(Chunked) = Content

LocatedHeadings(b) == \A k \in DOMAIN b.open : elements[b.open[k][1]].parts[b.open[k][2]].located

\* Blocks that stand under different headings never share a chunk, even when
\* the headings read alike, as long as the headings could be located
\* (heading_scope_key, the scope comparison of chunk_blocks).  A heading
\* that is not located has no place in the key, and blocks under two such
\* headings that read alike do share a chunk.
ScopesStayApart ==
  \A n \in DOMAIN chunks : \A i, j \in Range(chunks[n].of) :
    LocatedHeadings(blocks[i]) /\ LocatedHeadings(blocks[j]) => blocks[i].open = blocks[j].open

(* The headings that open something, in sections with no policy on names.  *)
Before(p, q) == p[1] < q[1] \/ (p[1] = q[1] /\ p[2] < q[2])

Places == UNION {{i} \X DOMAIN elements[i].parts : i \in {k \in DOMAIN elements : elements[k].tag = "P"}}

Opens ==
  {p \in Places :
     LET e == elements[p[1]]
         h == e.parts[p[2]]
     IN  /\ h.kind = "heading"
         /\ mode = "plain" /\ ~OnlyName(e) => h.located
         /\ ~(Bracket(h) /\ h.form = "dated")
         /\ ~(OnlyName(e) /\ p[1] < Len(elements) /\ IsTable(elements[p[1] + 1]))}

Level(p) == elements[p[1]].parts[p[2]].level

(* What ends a heading q that stands under the headings above it: a        *)
(* numbered one ends at a number not below it and, if it stands under a    *)
(* name, at the next name; a name ends at the next name, and at a number   *)
(* that is not below everything the name stands under.                     *)
Ends(r, q, above) ==
  IF Level(q) = 0
  THEN Level(r) = 0 \/ \E o \in above : Level(o) >= Level(r)
  ELSE IF Level(r) = 0 THEN \E o \in above : Level(o) = 0 ELSE Level(r) <= Level(q)

(* The headings open after a place; over[q] are those that q stands under. *)
OpenAfter(p, over) ==
  {q \in Opens : /\ ~Before(p, q)
                 /\ ~\E r \in Opens : Before(q, r) /\ ~Before(p, r) /\ Ends(r, q, over[q])}

Outline ==
  LET over[q \in Opens] == OpenAfter(q, over) \ {q}
  IN  [b \in DOMAIN blocks |-> OpenAfter(blocks[b].at[1], over)]

\* A block stands under exactly the headings of the filing that its place is
\* under, outermost first, and the places that were kept are those of the
\* headings (_push_heading, push_located_heading over the whole section).
HeadingsFollowTheOutline ==
  /\ Len(sources) = Len(stack)
  /\ \A k \in DOMAIN stack : sources[k] \in {None, stack[k].at}
  /\ policy = "open" =>
    \A i \in DOMAIN blocks :
      LET b == blocks[i]
      IN  /\ Range(b.open) = Outline[i]
          /\ \A k \in 2..Len(b.open) : Before(b.open[k - 1], b.open[k])

\* The paragraph a table chunk takes as its context stands right over it:
\* no other paragraph and no block under other headings is in between.  Only
\* a caption that is linked is taken without regard to this.
ContextIsLocal ==
  \A n \in DOMAIN chunks :
    LET c == chunks[n]
        between == {i \in DOMAIN blocks : c.context < i /\ i <= c.table}
    IN  c.context # 0 /\ c.context \notin prefixes =>
          /\ blocks[c.context].type = "paragraph"
          /\ \A i \in between :
               /\ blocks[i].type = "table"
               /\ blocks[i].enclosing = blocks[c.context].enclosing
               /\ LocatedHeadings(blocks[i]) /\ LocatedHeadings(blocks[c.context])
                    => blocks[i].open = blocks[c.context].open

\* A linked caption is the context of its table in every chunk and every piece
\* of one that has the table's records, whatever else is in it, never follows
\* another table in its own chunk, and no chunk holds two tables
\* (table_prefix_target, explicit_table_context, flush_pending).
CaptionsMeetTheirTable ==
  \A n \in DOMAIN chunks :
    LET c == chunks[n]
    IN  /\ \A i, j \in Range(c.of) : i < j /\ blocks[i].type = "table" => blocks[j].type = "paragraph" /\ j \notin prefixes
        /\ c.table - 1 \in prefixes => c.context = c.table - 1

\* What labels a table was written right before it: between a caption and
\* its tables there is no paragraph with content, between a unit and its
\* table also no other table (pending_table_heading, _context_hint).
LabelsAreAdjacent ==
  \A i \in DOMAIN blocks :
    LET b == blocks[i]
        clear(from) == \A k \in (from + 1)..b.at[1][1] : elements[k].tag = "P" => elements[k].parts = <<>>
    IN  /\ b.caption # None => clear(b.caption[1])
        /\ b.hint # None =>
             /\ clear(b.hint[1])
             /\ \A j \in DOMAIN blocks : j < i /\ blocks[j].type = "table" => ~Before(b.hint, blocks[j].at[1])

=============================================================================
