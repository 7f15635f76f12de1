---------------------------- MODULE MCSectionParse ----------------------------
(* Sections built from a palette of elements, and longer ones.             *)
EXTENDS SectionParse

Text(size) == [kind |-> "text", size |-> size, label |-> FALSE]
Heading(level, name) ==
  [kind |-> "heading", level |-> level, name |-> name, located |-> TRUE, form |-> "short", size |-> 1]
P(parts) == [tag |-> "P", parts |-> parts]
Table(role, size) == [tag |-> "TABLE", role |-> role, size |-> size]
Group(tables) == [tag |-> "TABLE-GROUP", tables |-> tables]

Numbered(level, name) == P(<< Heading(level, name) >>)
Unlocated(level, name) == P(<< [Heading(level, name) EXCEPT !.located = FALSE] >>)
Name(name) == P(<< Heading(0, name) >>)
LongName(name) == P(<< [Heading(0, name) EXCEPT !.form = "long"] >>)
DatedHeading == [Heading(0, "[2023]") EXCEPT !.form = "dated"]
Dated == P(<< DatedHeading >>)
Prose == P(<< Text(1) >>)
Label == P(<< [Text(1) EXCEPT !.label = TRUE] >>)
Data == Table("data", 1)
Unit == Table("unit", 1)

\* Elements every short section is made of.
Palette ==
  { Numbered(2, "1."), Numbered(3, "a."), Numbered(4, "(1)"), Name("[A]"), LongName("[B]"),
    Unlocated(3, "b."), Dated, Prose, Label,
    P(<< Heading(4, "(1)"), Text(1), Heading(3, "a."), Text(1) >>),
    P(<<>>), Data, Table("data", 9), Unit, Table("suffix", 1), Table("forward unit", 1),
    Group(<< Table("period", 1), Table("data", 1), Table("data", 2) >>) }

Short == UNION {[1..n -> Palette] : n \in 1..3}

Long ==
  { << Numbered(2, "1."), Numbered(3, "a."), Numbered(4, "(1)"), Prose,
       Numbered(3, "b."), Numbered(4, "(1)"), Prose, Data >>,
    << Numbered(2, "1."), Unlocated(3, "a."), Unlocated(4, "(1)"), Prose,
       Unlocated(3, "b."), Unlocated(4, "(1)"), Prose >>,
    << Prose, Data, Label, Unit, Data, Data >>,
    << Prose, Table("forward", 1), Data, Prose, Data >>,
    << Unit, Data, Prose, Data, P(<< Text(9) >>), Table("data", 9), Label, Table("data", 9) >>,
    << Numbered(2, "1."), Name("[A]"), Numbered(4, "(1)"), Prose, Name("[B]"), Prose,
       Numbered(2, "2."), Prose, Data >>,
    << Name("[A]"), Numbered(4, "(1)"), Prose, Name("[B]"), Data, Unit, Data,
       Numbered(3, "a."), Data >>,
    << Name("[A]"), Numbered(4, "(1)"), Prose, Numbered(4, "(2)"), Prose, Name("[B]"), Numbered(2, "1."), Prose >>,
    << P(<< Text(1), Heading(0, "[A]"), Heading(4, "(1)"), Text(1) >>),
       P(<< Text(1), DatedHeading, Text(1) >>), Data >> }

MCSections == Short \cup Long
MCPolicies == {"open", "risk", "notes", "mdna"}
===============================================================================
