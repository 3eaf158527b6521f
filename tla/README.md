# gedcom-parse in TLA+

Models, model-checking runs and machine-checked proofs for the gedcom-parse
library: the event-driven GEDCOM parser (`src/gedcom`) and the object model on
top of it (`src/gom`). Every definition is translated from the C, Lex or Yacc
source; `PROJECT.json` gives the lines each one stands for.

Run from this directory: `tlc -config MCXref_open.cfg MCXref.tla` (any run of
the table below; the longest takes about three minutes with two workers), and
`tlapm XrefProofs.tla`, or any other module whose name ends in `Proofs`, for
the proofs (the longest, `ParserProofs` and `DatesProofs`, take about ten
minutes each).

## The system

An application calls `gedcom_parse_file`. `multilex.c` finds out the encoding
of the file, picks one of three lexers and calls the Bison parser, which calls
the application back at the start and the end of records and elements. Keys
(`@I1@`) go to a cross-reference table. `gom_parse_file` is such an
application: its callbacks build linked structs, which the user then reads,
changes and writes with `gedcom_write_*`. There are no threads: the behaviours
that are hard come from long sequences of calls, from state that survives a
parse, and from errors half way through an update.

| component | state it keeps | operations | properties that make it correct |
| --- | --- | --- | --- |
| cross-reference table (`xref.c`) | hash table of nodes: public type, type of the definition, type of the uses, use count, object | mention while parsing, check at the end; add, link, unlink, delete by the application | verdict independent of the order of mentions; undefined and unused keys reported; the fields of a node agree |
| object model (`gom/`) | a struct per record, lists of substructures, reference fields | callbacks; `gom_new`, `delete`, `get`, `set`, `add`, `remove`, `move` | references lead to records; use counts count fields; an object has the type its key says |
| linked lists (`func_template.h`) | first, `next`, `previous` (of the first: the last) | link, unlink, move, destroy | always represents a sequence; each call changes it as documented |
| lexers (`gedcom_lex_common.c`, three `.lex`) | start condition, `current_level`, `level_diff`, `line_no`, `line_len`, `tab_space` | one action per pattern; `gedcom_check_token` | brackets match levels and are closed at the end; line numbers; limits; no influence of the last file |
| grammar (`gedcom.y`) | automaton stack, `count_level` with the count arrays and contexts, `fail`, error mechanism | open, tag, value, start, close; error recovery; `clean_up` | count arrays are those of the open sections; an error makes the parse fail as the mechanism says; the recovery ends |
| parse session (`multilex.c`) | everything above that is static | `gedcom_parse_file`, several times | a good file succeeds whatever came before |
| compatibility (`compat.c`) | program, version, rules in force, a counter or context per rule | set by HEAD, asked by lexer and grammar; elements and records generated out of context | rules and contexts of one file never apply to another; generated links have their records |
| callbacks (`interface.c`, `gom_internal.c`) | subscriptions, stack of contexts, chain of the object model's contexts | subscribe, start, end, end of a record | every callback gets the context of the nearest section around it that has one, and after a recovery none of a section or record that it is not in |
| substructures (`gom/*.c`) | one struct per section, with its fields | a callback, a write function, a clean function and an unref function each | the four functions agree on the fields: nothing is lost, freed twice, leaked or left counted |
| writer (`write.c`) | handle: stack of contexts, line buffer | records, elements, user tags | order and levels; a long value is read back unchanged |
| encodings (`encoding*.c`, `multilex.c`, `utf8/`) | what is known of the last file, what is set for the next, the converters and their buffers | detect, `to_internal`, set, open, write, close | what is written can be read; one file's state is not another's |
| ANSEL converters (`iconv/`) | the letter or mark held back | a character or byte at a time | marks stay on their letters at every boundary |
| dates and ages (`date.c`, `gedcom_date.*`, `age.c`) | the date being parsed, the lexer's start condition, `errno` | parse, normalize, write | the bounds of a date are its first and last day; what is written is read again |
| calendars (`calendar/`) | | to and from serial day numbers | the directions invert each other and days follow each other |
| hash table (`hash.c`) | chains, counts, marks | insert, delete, look up, scan and delete | it is a set of keys, whatever its size; scans end |
| gettext (`intl/`), tools (`bin/`) | | | vendored; wrappers |

How they interact: the lexer hands brackets (`OPEN`, `CLOSE`) and tokens to the
grammar; the grammar mentions keys in the table and calls back; the object
model stores pointers *to* the table's values in its fields and a pointer to
its struct *in* the table. The application's calls on keys use the one-byte
lexer again to check them. So the same statics are written by a parse, by the
next parse and by the calls between two parses.

`PROJECT.json` lists under `hazards` what can go wrong at which line, with the
properties that cover it, or why none does yet.

## Modules

**`XrefNode`** is one node of the table with the pure part of `set_xref_fields`
(`Accepts`, `Define`, `Use`), of `gedcom_unlink_xref` and of
`check_xref_table`. **`Xref`** is the table: `StartParse` (`make_xref_table`),
`ParseXref`, `EndParse`, `AbortParse`, and `AddXref`, `LinkXref`, `UnlinkXref`,
`DeleteXref`, which come between parses. `defs` and `uses` are history
variables: what *this file* has mentioned. Left out: message texts and the line
numbers in them, and the syntax of keys (`Key` is the set of valid ones).
Bound: use counts in `-MaxUse..MaxUse`; they are only compared with 0.

**`List`** is what a list promises: a sequence that grows at the end, loses an
element, or has two neighbours exchanged. **`Chain`** is the pointers: one
action per function that uses `LINK_`, `UNLINK_`, `MOVE_` or
`DESTROY_CHAIN_ELT(S)`. `Found(e)` is the search of the C code as a closure,
so that the module needs no recursion and can be proved about. `MoveLengths`
says at which lengths the user moves elements (see the findings).

**`RecordStore`** is what the object model promises: a set of records, fields
that refer to records, and only unreferenced records deleted; its `outcome` says
whether the last call was refused, in which case nothing has changed (`Keep`),
as `gom_modify.c:191-194` promises. **`Gom`** is the code: table nodes, `object`
pointers, record structs in memory (`recs`), reference cells (`ref`), the use
counts kept by hand. The callbacks are `ParseRecord`, `ParseField`,
`ParseAssociation`; the calls are `New`, `Delete`, `SetXref` with its release,
take, and rollback, `AddXref`, `RemoveXref`, `RemoveSub`. `Gom` contains the
node operations by extending `XrefNode`: the table is composed with the records
in one state. `Mishap` names what may happen besides well-formed files: it
separates what the code guarantees from what it only guarantees while files and
applications keep to the rules.

**`Lexer`** has the static variables of `gedcom_lex_common.c` and one action per
`ACTION_` macro; text is abstracted to token lengths and kinds, the file is
chosen line by line. `gedcom_check_token` is an action between files.

**`Parser`** is the session: the automaton's stack as the sections that are
open with the line being read on top, `HANDLE_ERROR` under the three
mechanisms, the recovery of a Bison parser (`SyntaxError`, `Discard`, `Raise`,
`GiveUp`: the states are popped to the last one with an `error` production),
and `count_level` and `fail`, which survive. Whether a tag is allowed where it
stands is a choice of the environment: the thousands of lines of tag rules
differ in that only. Values of sections are left out.

**`Callbacks`** extends `Parser` with what the application sees: at each start
it may have a callback or not, `SelfOf` is `start_record` and `start_element`,
`ctxt_stack` the contexts that `PARENT` reads, and a context is represented by
the place of its section in the parser's stack, so that it can be compared with
the sections that are really open (`Holder`). A section that the recovery gives
up may stay counted, and its context with it: `Left` is what becomes of a context
whose section is over or given up while its record goes on, `Freed` when
`end_record` frees the object model's chain of contexts. An error at the end of
a section comes before its end callback (`CloseInVain`, a mandatory tag is
missing) or after it (`end_element`, one section too many). `CSpec` is `Parser`'s
`Spec` with these variables.

**`Grammar`**, **`Schema`** and **`Writer`** are the tables that `gedcom.y`, the
callbacks of `gom/*.c` and its write functions amount to, over one set of
sections (named as the elements, with `_LINK` for the form that points to a
record). `Grammar`: which sections a section may have, how often (`OCCUR`),
which it must have (`CHECK`), which use the text buffer. `Schema`: the struct
that a start callback casts the context of its parent to, the field or list
that gets the value, the parents that it knows. `Writer`: the order of fields
in each write function, and the context stack of `write.c`, from which
`get_level` finds the level of a line. **`RoundTrip`** composes them for one
record: `ReadRecord`, `ReadLine` and `EndRecord` are the parser with the
callbacks, `WriteLine` the write functions. A line has a number for a value;
`held` are the lines whose value the model has, `text` what a section ends
with, `out` the file that is written. Left out: sections that only a
compatibility mode allows, formats of values, the GEDC line that
`write_header` adds when there was none, and failed allocations. A missing
mandatory section does not stop the record, as under the lenient mechanisms.
A field is written with the type that its write function passes, and
`CheckType` compares it with the table in `tag_data.h`.

**`Ownership`** completes the four functions of each struct: its members
(`gom.h`), what its `CLEANFUNC` frees and the uses that its `UNREFALLFUNC` gives
back. `RoundTrip` deletes the record in the end and compares both with what
reading it has stored.

**`Compat`** is a session of files by any program: `set_compatibility_program`,
`_version`, `compute_compatibility`, and the rules that generate a submitter
record, a family for `SLGC`, contexts for comments, addresses and countries,
and tags out of context. A file may be aborted anywhere. An `Element` of
`made` has the file and the record of the context it is given, which is what
`ParentsAreOfTheFile` compares.

**`Encodings`** has the two states of `encoding_state.c`, the table of encodings,
the converter of the lexer and the writer's handle, over files that are read
and written one after the other with settings in between. **`LongValues`** is
`write_long` on strings of bytes, with the lexer and grammar that join the
lines again, and `compat_long_line`. **`Ansel`** is a line on its way through one
of the two ANSEL converters and the buffers of `utf8-convert.c`; the tables are
sampled, one entry of each kind. **`Ages`** is `age.c` with `errno`: an age is
its numbers with their units, read up to the first one at which
`parse_numeric_age` stops. `AgeLine` says what lines there are: a numeric age
begins with a digit, and only its last number can be at the end of the line.

**`Calendar`** has the conversions as operators, with the C divisions and the
limits of each calendar. **`Almanac`** is the reference: the rules of leap
years and lengths of months, and which day follows which (`Follows`), without
any serial number. **`Dates`** is a program that reads, sets and normalizes a
`date_value`, with the date grammar and the state its lexer keeps; `NextDay`
walks from day to day. Numbers stand for their digits, a year string for one
year or for two around a slash. `Faithful` says which dates can be written
without loss, which takes a year of seven digits at most.

**`Table`** is a set of keys with scans; **`Hash`** the extendible hash table that
implements it (`IsATable`): a chain is a sequence of nodes, `Resized` splits and
joins chains, `NewMarks` are the bounds of the count, doubled and halved with
the number of chains (which is a power of two, hence even when it is halved).

`MC*` modules give the constants. Theorems are in `XrefProofs` (with the lemmas
about a node), `ChainProofs`, `GomProofs`, `LexerProofs` (lexers and encodings),
`ParserProofs` (parser and callbacks), `CompatProofs`, `HashProofs` and
`DatesProofs` (dates, calendars and ages).

## Runs

| run | question | bounds |
| --- | --- | --- |
| `xref_open` | Are the reports right and the fields of nodes consistent, over files and calls in any order, with open types? | 2 keys (symmetric), 2 record types and ANY, counts in -1..1 |
| `chain_list` | Does the list stay a list and behave as `List`? | 5 elements, moves at every length but 2 |
| `gom_clean` | Is the model a `RecordStore` with true counts, in which a refused call changes nothing, while everyone keeps to the rules? | 3 keys, a single field, a list field and a field of a substructure |
| `gom_any` | Are the structs the objects of their keys, whatever happens? | 2 keys, all mishaps, counts up to 2 |
| `lexer_files` | Brackets, ends of files, line numbers, length limit, keys of the application | levels 0..3, lines of length up to 3, 3 lines a file, several files |
| `parser_session` | Counts, results, exits, contexts of callbacks, and the end of the recovery under each mechanism | 3 lines a file and one more after an error, levels 0..2, all classes of tags and values, any number of files |
| `record_tree` | Does every line of a record reach the object model, and the written file at its place? Is everything freed once, and every use given back? | all kinds of records and sections, 4 lines, at most 2 of them just below the record; 6 lines anywhere if all but the record are notes and citations |
| `dates_values` | Are bounds, conversions and written dates right, and do days follow each other? | 4 calendars at their edges, two calls and a walk |
| `hash_table` | Does the table implement a set while it grows and shrinks? Do scans end? | 9 keys, 2 to 8 chains, 10 insertions |
| `compat_session` | Do rules, links and contexts belong to the file that is read? | 2 files of 3 records with 2 sections, 5 programs, 4 versions |
| `text` | Do encodings agree, and do long values, ages and ANSEL lines survive? Does the cutting end? | lines of 12 bytes, values up to 6 characters; 3 files read, 1 setting, 1 file written; 2 ages; 2 buffer sizes |
| `text_long` (violated) | Is a long value with any UTF-8 characters whole? | as `text` |

Why the bounds are enough. *Table:* a node does not look at other nodes, so two
keys already show any interference; two types make every conflict possible; a
count is compared with 0 only. *List:* a move touches at most four neighbours
and the head, so five elements cover each special case with one element to
spare. *Model:* an anomaly needs a referring record, its target and, for
`SetXref`, the target it had before. *Lexer:* levels up to 3 let a level rise by
2 (refused) and fall by several (several brackets for one line); length 3 is the
limit and one more exceeds it, as do the lines that are too long by their
terminator. *Parser:* HEAD, a record and TRLR fit in three lines, a substructure
with an error at level 1 or 2 as well, and what one file leaves is met by the
next file since files are not counted. A line that a user section refuses gives
that section up while it stays counted, and the line after it, the fourth, is
the first to find its context: such a line, with a user tag, is read after every
error (`LastLine` of `MCParser`). *Records:* a callback looks at its parent
only, so record, section, section, section meets each callback under each parent
that is at most two below a record, which all are except under notes and
citations in each other and header parts; two values for one field and a user
line next to a field fit in as well. Notes and citations can contain each other
for ever: six lines show the fourth inside the first three, which is where
`get_level` first finds a wrong one. *Dates:* the years are those in which a
rule of a calendar changes (reform of the double year, leap years by 4, 100 and
400, both kinds of Hebrew years, the last French ones, the year before 1), and
the walks cross each year's end. *Hash:* the table doubles twice and halves
again, a chain is split with nodes on both sides, on one, and not at all, and
two keys stay in one chain. *Compat:* two files show what one leaves to the
next; two sections are the second link and the second address; three records an
individual, a submitter, and one after them, or three individuals, the second
of which has no link. *Text:* with lines of 12 bytes a
value of four characters is cut once or twice; a second setting replaces the
first or concerns other fields; a buffer of one byte is full at every byte. The
state spaces are finite by these bounds; the guards that hold them name them.

Deadlock is checked everywhere except in `gom_any`, where a crashed process
stops, in `record_tree`, which ends when the record is written and deleted, and
in `dates_values`, `compat_session` and `text`, whose numbers of calls, files and
settings are bounded.

Every property of a passing run is paired in `PROJECT.json` with a mutant, a
plausible slip in the C (a forgotten reset, a lost branch), under which TLC
finds it violated.

**Fairness.** Nothing asks the application for another call, and no fairness is
given to the choices of an input; what is fair is a function that was called,
which runs until it returns in the only thread there is. `Parser` and
`Callbacks`: weak fairness of the parser's and lexer's steps together
(`gedcom_parse` is one synchronous call). Reading is bounded, so `ParseReturns`
says what a hand check of the grammar would have to show: the recovery has no
loop that takes no token. `Hash`: the loop of a scan and its deletions while the
table is freed. `LongValues`: the loops of `write_long` and of the long notes,
which are bounded by the value only if every cut advances: `WritingEnds` says
that it does, unless a stretch of spaces is longer than a line.

## Findings

With a run:

- `text_long`: a value with characters of several bytes that needs CONT or CONC
  lines loses its end, since its length is counted in characters and used up in
  bytes.

Known from the models, and named as exceptions by the properties or kept out of
the runs by a constant that names the case:

- *Lists* (`MoveLengths`). Moving an element of a list of two leaves `previous`
  of the moved element pointing to itself; the list loses elements afterwards.
- *References* (`Mishap`). A reference that the table refused is stored all the
  same, uncounted, and `gom_delete_XXX` then deletes the record under it,
  against "records cannot be deleted if they are still referenced".
  `gom_remove_XXX` frees a substructure without giving back its uses. The
  rollback of `gom_set_xref` on an empty field dereferences NULL. Its doc
  comment says that after an error, "e.g. there was no record found with the
  given key", the data variable is not changed (`gom_modify.c:191-194`); for an
  unknown key it returns NULL as said, but has unlinked the old value and
  cleared the field (`:208-224`). With the mishap `unknown_key` TLC finds
  `IsARecordStore` violated by this step.
- *Keys* (`KeysAreJudged`). After a file that was not read to the end,
  `gedcom_check_token` returns a bracket that is still pending from it, and a
  valid key is refused.
- *Sessions* (`ErrorsAreHandled`). After a file that stops in the middle of a
  record, the HEAD of the next file makes the library call `exit(1)`.
  `IGNORE_ERRORS` does not "return success always" (`gedcom.h.in:271`): a file
  that ends while the parser recovers from an error, for example one without a
  trailer, fails (`CannotRecover`); and `fail` is never reset
  (`gedcom.y:155`, `:426`), so that after an error under `DEFER_FAIL` every file
  that is read to its end fails, also one without errors and under
  `IGNORE_ERRORS`. `ResultIsTrue` names both cases.
- *Records* (`RecordIsRead`, `RecordIsWritten`). The grammar lets an association
  have one section and demands two; no file with an association is accepted.
  Telephones of other family events and user lines in texts and pedigrees are
  dropped; a second `AFN` or `PLAC` replaces the first; a section with a text
  inside another one makes the outer one lose its own; `BLOB` and the user lines
  of links to multimedia records are never written; `TYPE` and `RELA` of an
  association are written beside it; lines of a note in a citation in a note go
  to the innermost; user lines below a field are written at their old level
  behind other lines, where they can be unreadable.
- *Memory* (`SingleStructs`, `Lost`, `KeptByHeader`). `gom_delete_address`,
  `_place` and `_change_date` free their struct twice; the user lines of texts
  and pedigrees are never freed; `header_cleanup` leaves the corporation's
  address dangling and the submitter and submission set.
- *Compatibility*. The version of a PAF file is inherited from an earlier file
  if it has none. The family that a `SLGC` without `FAMC` is linked to is
  generated while the counter of such links is 1, and generating it does not
  advance the counter (`compat.c:588-606`): after two links in the first
  individual that has one it is never generated, where the comment at `:590`
  takes it to be there already, and after one it is generated again at the end
  of each individual up to the next one with a link. `LinksAreDefined` names
  both cases. A country of a submitter can go to an event's address in an
  earlier individual.
- *Encodings*. Settings made after a file was opened for writing change its line
  ends and its `CHAR`, against the comment at `encoding_state.c:72`; if the
  first conversion of a file cannot be opened, its width is kept with the
  character set of the file before (`torn`); an encoding that was refused has
  already changed the source of the encoding.
- *Long values*. Stretches of spaces longer than a line never end or are read
  before their start; a cut may separate `@@`; `ADDR` gets CONC lines that the
  grammar refuses; a line that cannot be written is dropped without an error.
- *Dates*. The second date of a period inherits the day and month of the first;
  an unclosed parenthesis makes the following lines phrases; Adar of a common
  Hebrew year, the French year 14 and 1 B.C. have no bounds; a second year of
  one digit is written unreadably; a year of more than seven digits that a program
  sets does not fit `year_str` (`date.c:343`).
- *Ages*. After one number out of range all numeric ages are refused; a number
  at the end without a unit is lost.
- *ANSEL*. If the output buffer gets full inside a character, libiconv's
  converter loses its letter and glibc's writes behind the buffer; U+0114 and
  U+00D0 are misspelt by the tables.
- *Callbacks* (`Fits`). `user_sects` (`gedcom.y:3937`) has no `error`
  alternative: a line that a user section refuses (without a tag, or with an
  unknown one) gives that section up, whose end callback is never called, and
  which stays counted. The line after it, which the grammar then puts into the
  section around, gets the context of the section that was given up. The
  mismatch of levels that makes `push_countarray` exit is found after the start
  callback, which may already have got such a context.

A key that an association (`ASSO`, an open type) uses before the file uses or
defines it as a person conflicts with itself: `set_xref_fields` compares the
recorded ANY with the type, drops the definition, and the check reports a
defined key as undefined. `NoFalseAlarmOfKnownTypes` excludes such keys.

Met while modelling and listed as hazards without a property: message tables
shorter than their index, level 99, junk after the trailer that counts as
success, calls of the application from callbacks. The callbacks of the object
model are subscribed once, with the compatibility options of whichever came
first, `gom_new_model` or `gom_parse_file` (`gom.c:139`); `Compat` has the option,
and nothing in the code says which one it should be.

## Proofs

TLAPS proves for every value of the constants what the runs show on small ones.

`XrefProofs` (assumptions: `RefTypeAssumption`, `XrefAssumption`): type
correctness; `NodesAreConsistent` and its three parts `TypesAgree`,
`PublicTypeIsTrue`, `CountedIsUsed`; `ReportsAreRight` and its three parts
`UndefinedIsReported`, `UnusedIsReported`, `NoFalseAlarmOfKnownTypes`. None
of the reports is inductive by itself: at the end of a parse they speak of the
file, through `defs` and `uses`, while the code only has the nodes. The
inductive invariant has two parts. `TableInv` says of each node in the table
what makes the fields agree, strengthened by "it has a definition or a use"
(without it a definition could take any type, whatever the public type is).
`FileInv` relates, *during* a parse, each node to the history of its key: a
recorded type is one the file mentioned, a key outside the table has no
history, and a key without a definition has not been defined as what it is
used as. After the check `ReportStays` freezes the reports, while the
application goes on to change the nodes. Lemmas about `SetXrefFields` carry
the argument; one step per action uses them.

`ChainProofs` (assumption: `ChainAssumption`, a finite `Elt`): type correctness,
`WellLinked` and `IsASequence`, provided that no element of a list of two is
moved; with `MoveLengths` containing 2 TLC finds `IsASequence` violated. The
argument gives the sequence that the pointers represent after each call:
appended, one position removed, two exchanged, empty. `Found` is shown to be
membership in it, by the closure for one direction and by the set of the
elements met so far for the other. `ImplementsASequence` is the refinement of
`List`: the walk along `next`, which is what the user of the list sees, reads
that sequence, and each call makes a step of `List` of it. The walk is a
recursive function; it is shown to exist by giving it, and to read the n-th part
of the sequence by the least number of steps for which it would not.

`GomProofs` (assumptions: `RefTypeAssumption`, `GomAssumption`): type
correctness and `RecordsAreListed` hold whatever files contain and whatever the
application does. The others hold under the mishaps that the theorem leaves
out, and with any one of those left out TLC finds the property violated:

| theorem | mishaps that may happen | what the argument rests on |
| --- | --- | --- |
| `ObjectTypesAreTrueAlways`, `NeverCrashedAlways` | all but `asso` | `TypesInv`: every type that a node has is the type its object was made with, and a key outside the table has no object. An association would use a key without knowing its type. |
| `ImplementsTheStore` | not `asso`, `mistyped`, `unopenable`, `unknown_key` | `RefsInv`: every key of the table has its record, every reference a key of the table, and the use count is not less than the number of references (`Slack >= 0`). That suffices: `gom_delete_XXX` refuses whatever is referenced. The refinement maps `recs` and `ref` to themselves; `StepIsStoreStep` has one step per action. |
| `ReferencesAreSoundAlways` | `confused`, `repeated`, `remove_sub`, `unknown_key` | `AllDefined`: in a model every key of the table has a definition. While a file is read this does not hold, and the end of the parse establishes it. |
| `UsesAreCountedAlways` | `confused`, `unknown_key` | `CountsInv`: `Slack` is 0. Each action is shown to change the count and the number of referring fields alike (`KeepsPace`), by counting lemmas about the sets of fields. |

`LexerProofs` (assumption: `LexerAssumption`): type correctness,
`BracketsBalance`, `KeysAreJudged` and `LinesAreCounted`, for any number of
levels, any limits and any lines. The inductive invariant is
`TypeOK /\ SessionInv /\ PendingInv /\ DepthInv /\ LineInv`. What carries the
argument is how `level_diff` codes three things in one number: a level that is
pending, closing brackets that are pending, and nothing (`DepthInv` gives the
depth of the brackets in terms of it), and that `line_no` lags one line behind
until the tag of a line is read (`LineInv`). For keys, `PendingInv` says what a
file that was read to its end leaves in `level_diff` and `tab_space`: nothing;
`yylex` on the key alone is then unfolded for each kind of key.

Its second half (assumption: `EncodingsAssumption`, on the entries of the
configuration files and the text of the files read) is about `Encodings`, the
other thing that decides how the lexer reads a file: `EncodingsAgree`, for any
configuration files, any encodings that iconv knows and any number of files
read, settings and files written. The state of the last file read, the one set
for the next file written and the handle that is open only meet at the end, when
what was written is read; the invariant says of each what the others will need:

- `TableInv`: each entry of the hash table converts to the width it is listed
  under. A file that is being read would else lose its converter when its
  header names a character set.
- `ReadInv`, `WriteInv`: each state is a line of the table, unless it is torn,
  and its character set is written with underscores.
- `ReadingInv`: the converter of the lexer is the one of the state, and how much
  of the state is that of the file, by how far the file is read.
- `HandleInv`, `FileInv`: as long as nothing is set, the open handle is what was
  configured, and a file that was closed so has one character set that the
  table knows for its width and encoding.

`OutcomeInv` then makes a file that was read wrongly one that was changed while
it was open.

`CompatProofs` (assumption: `CompatAssumption`): `CompatibilityOfTheFile`,
`LinksAreDefined` and `ParentsAreOfTheFile`, for any versions, any number of
files and files of any length that may break off anywhere. `ModeInv` says when
the program and version are those of the header that is being read: only from
its SOUR on, so that before it the invariant says nothing of what the file
before has left. `RuleInv` says that a counter or context is only set while
its rule is on; `LinkInv` and `ContextInv` relate it to what the file has used,
and to the number of the file and the last submitter record. For the family
`LinkInv` says what the counter is worth: until the end of the first individual
with a link it is the number of links there, and if that is more than 1 it never
is 1 again.

`ParserProofs` (assumption: `ParserAssumption`): type correctness,
`CountsMatchSections` and `ErrorsAreHandled`, for any number of levels, lines and
files and any error mechanisms. What holds is hardest to see after an error,
when sections are discarded from the stack without being taken off the count.
The parts of the inductive invariant:

- `Shape`: which symbols can stand where on the stack; an error only in a
  section whose rules have an `error` alternative, with nothing above it that is
  counted.
- `TagInv`, `InputInv`, `SessionInv`: the tag fits the place of the line; a
  line's tokens are closing brackets, then an opening one; what is left between
  files.
- `CleanInv`: before the first error, `count_level` is the number of sections on
  the stack, which the level of the line and the closing brackets that are still
  to be read determine. So the check in `push_countarray` never fails.
- `BrokenInv`: from the first error on, until it is passed over, an error is on
  the stack or the file is given up. With `Shape` this makes that no section
  starts or closes (`NothingStartsInError`, `NothingClosesInError`), which is
  `ImmediateFailure`, and the half of `ExitHasReason` after an error.
- `CountInv`, `FailInv`, `InsideInv`: `count_level` is never behind the stack;
  an error inside the file is on the stack or in `fail` when the parse returns;
  `fail` is only set if an error was deferred, in this file or an earlier one.

`ErrorsAreHandled` needs `MaxLevel < MaxGedcLevel`. The code does not guarantee
it: the lexer accepts level 99, for which `push_countarray` has no room (a
hazard at `gedcom.y:4233`); up to level 98 the theorem is about the code as it is.

The second half of `ParserProofs` is about `Callbacks` (the same assumption):
`ContextsFit`, for any number of levels, lines and files, any error mechanisms
and any choice of the sections that have a callback; and what the first half
shows of `Spec` for `CSpec` (`ParserIsUnchanged`), since every step with
callbacks is a step of the parser.
What `PARENT` reads is indexed with `count_level`, while the sections around the
one on top are those of the stack. As long as all that is counted is open the
two agree; `Drift` says how far `count_level` is ahead after a recovery. The
inductive invariant is `Inv`, that of the parser, with `ContextInv`:

- `OwnerInv`: a context on the stack of contexts belongs to an open section with a
  callback, and lies no deeper than the place of this section among the counted
  ones (`Place`).
- `HeldInv`: the context of each open section is there, at most `Drift` above that
  place, so that there is room for those of the sections in it.
- `OrderInv`: further up, only contexts of sections further in, or given up ones.
- `FreedInv`, `LeftInv`: a context of a record that has ended lies at most at
  `Drift`, where nothing reads it; without drift none of a section that is over.

A step in which no section starts keeps the sections up to some place and has
none that is counted above it, and never makes `Drift` smaller (`StepShrinks`);
from this alone `ContextInv` follows (`ShrunkKept`). Starting a section and the
end of a record are shown one part of the invariant at a time. `ContextAt` then
gives the context that is found at a level: the greatest section below the top
that has one is at or below this level by `HeldInv`, so by `OrderInv` nothing
smaller is found there, and by `OwnerInv` nothing greater but the section on top
itself.

`HashProofs` (assumption: `HashAssumption`): type correctness and
`ImplementsATable`, the refinement of `Table`, for any keys, any hash function,
any first size and any number of insertions. The inductive invariant is
`Verified`, which is what `hash_verify` asserts and more (each key is in the
chain that its hash value gives it, in one chain once; the marks are half and
twice the size), and, for a scan, `OnTrack`: the next node is still in the chain
that the scan has reached. A node that was handed out is not among those that
are left (`LeftOf`), so that deleting it cannot make the scan lose or repeat
one; while the table is freed, what is in it is either left or was just handed
out, so that nothing is forgotten. The lemmas say what is in the chains after
they were split (`GrowVerified`) or joined, and that looking up in a chain is
membership.

`DatesProofs` (assumptions: `CallsAssumption`, `ValuesAssumption`,
`LinesAssumption`, on the shape of the values and lines):

- *Conversions* (`DatesAlwaysConvert`, `DaysAlwaysFollow`). For each of the four
  calendars, that `from_sdn_func` of a day is a date that exists and
  `to_sdn_func` leads back, that a date that exists leads to a day and back, and
  that the date of the next day is the one that follows by the rules in
  `Almanac`. Gregorian and Julian dates are counted in months and years from
  March, French ones in years of 365 days with a leap day. For the Hebrew
  calendar the argument goes from the molad of a year in its cycle of 19 to the
  postponements, which make the years 353 to 355 or 383 to 385 days long, and
  from there to the months. The searches of the C code for the cycle and the
  year are recursive functions; they are shown to exist, and to find what they
  should, by the least number of steps for which they would not.
- *Bounds* (`BoundsAreAlwaysTight`). A key that orders dates as their day
  numbers are ordered (`Key`) is shown to ascend along the calendar; no date
  that fits what is known then lies before the first or behind the last day.
- *Writing* (`WrittenIsAlwaysRead`). The inductive invariant `DateInv` says what
  the last call has left in the value: after a call that succeeded, the day
  numbers are those of the numbers (`Answers`) and the strings say the same as
  the numbers (`Tells`). So the line that is written has the parts of the date,
  and the grammar finds them again. The attempt to prove it showed that it had
  been stated for too much: a year of eight digits, or a double year whose first
  one has more than four, can be set and is written, but is not read as it was;
  the former does not even fit the field (`date.c:343`). `Faithful` leaves such
  dates out.

These theorems are about unbounded integers; the C code has `long` and `int`.

The last part of `DatesProofs` is about `Ages` (assumptions: `AgesAssumption`,
`AgeLinesAssumption`): `AgesAreKept`, for ages of any number of parts. `AgeInv`
says that the age is the one that was read from the last line, with or without
an error that was pending. The part at which reading stops is the least one that
stops; before it each unit comes once, so that writing years, months and days in
this order and reading them gives the numbers back.

Most inductive invariants were checked by TLC on the constants of the runs
before they were proved, those of `Encodings` and `Ages` too; `ContextInv` and
`ContextsFit` also with up to 5 lines and levels 0..3 under `IGNORE_ERRORS`,
where an end callback can get the context of its own section. TLC cannot
evaluate those of `Hash` and `Dates`, which quantify over all naturals
and all dates; their consequences are what `hash_table` and
`dates_values` check.

Only model-checked, and why:

- liveness (`ParseReturns`, `ScansEnd`, `WritingEnds`): the prover does neither
  fairness nor ENABLED;
- the five invariants of `RoundTrip` (`TypeOK`, `RecordIsRead`, `RecordIsWritten`,
  `MemoryIsGivenBack`, `UsesAreGivenBack`): what they say depends on every row of
  the tables of `Grammar`, `Schema`, `Writer` and `Ownership`, which are
  walked along a record of any depth;
- `TextIsKept` of `LongValues` and `AnselIsKept` of `Ansel`: what loops
  over a text compute for every text, which takes an induction over the text.

## Plan

Modelled and checked: all modules above. Next: the composition of `Grammar`
with `Parser`, whose choice of tags it can make, and the application's calls
that add and remove substructures in `RoundTrip`.

Not modelled: gettext (`intl/`, vendored), the conversions inside iconv apart
from ANSEL, the text of messages, the buffers of `buffer.c`, option parsing of
the tools, the test programs, failed allocations, and integer overflow in the
calendars, which needs years far beyond any date.
