---------------------------- MODULE RowFormat ----------------------------
(***************************************************************************)
(* The text of a row: what `todox add` makes of the words it is given      *)
(* (src/src/app/parse.c, src/src/repeat/repeat.c), the line written for a  *)
(* row, and the row read back from it (src/src/time/table.c).              *)
(*                                                                         *)
(* A text is a sequence of tokens: "TS" stands for a date, a time and a    *)
(* zone, "HH" for a time and a zone, "mon" for a word that is a weekday,   *)
(* "repeat" for that word, "x" for any other; "%", " " and "\n" are        *)
(* themselves.  Two adjacent "%" separate fields.  What a time stamp means *)
(* is in module CivilTime; a row here is its two texts and its repetition. *)
(***************************************************************************)
EXTENDS Integers, SequencesExt

CONSTANTS
    FieldLen,   \* tokens of a task or comment that are kept (255 characters)
    FieldTexts, \* what may be typed between two separators
    Heads       \* what may be typed before the first separator

Token == {"TS", "HH", "mon", "repeat", "x", "%", " ", "\n"}

ASSUME FieldLenAssumption == FieldLen \in Nat \ {0}
ASSUME TextsAssumption    == FieldTexts \cup Heads \subseteq Seq(Token)

VARIABLES
    born,       \* the row as it was entered: one row, or none yet
    rows        \* the rows of the file, in the order of its lines

text == <<born, rows>>

TextRow(t, c, r) == [task |-> t, comment |-> c, does_repeat |-> r]

-----------------------------------------------------------------------------
(* Fields                                                                  *)

Sep == <<"%", "%">>

IsSepAt(s, i) == i \in DOMAIN s /\ i + 1 \in DOMAIN s
                    /\ s[i] = "%" /\ s[i+1] = "%"

\* strstr(s, "%%")
HasSep(s)   == \E i \in DOMAIN s : IsSepAt(s, i)
FirstSep(s) == CHOOSE i \in DOMAIN s : /\ IsSepAt(s, i)
                                       /\ \A j \in 1..i-1 : ~ IsSepAt(s, j)
Before(s) == SubSeq(s, 1, FirstSep(s) - 1)
After(s)  == SubSeq(s, FirstSep(s) + 2, Len(s))

Blanks == {" ", "\n"}

\* trim of parse.c, which leaves the beginning alone.
TrimRight(s) == SubSeq(s, 1, SelectLastInSeq(s, LAMBDA e : e \notin Blanks))

TrimLeft(s) ==
    LET i == SelectInSeq(s, LAMBDA e : e \notin Blanks)
    IN  IF i = 0 THEN <<>> ELSE SubSeq(s, i, Len(s))

\* trim of repeat.c
TrimBoth(s) == TrimRight(TrimLeft(s))

\* strncpy into a field of todox_format_t
Cut(s) == SubSeq(s, 1, Min({FieldLen, Len(s)}))

StartsWith(s, tokens) == s # <<>> /\ s[1] \in tokens

\* A field iso8601_to_time_t takes: strptime skips blanks before a date (not
\* before the time prepend_today completes) and ignores what follows.
IsStamp(s) == StartsWith(s, {"HH"}) \/ StartsWith(TrimLeft(s), {"TS"})

Repeats(s) == HasSep(s) /\ TrimRight(After(s)) = <<"repeat">>
Body(s)    == IF Repeats(s) THEN Before(s) ELSE s

-----------------------------------------------------------------------------
(* The three forms.  Each gives the rows it finds: one, or none.           *)

Unreadable == <<>>

\* parse_triplet: TS%%TASK%%COMMENT[%%repeat]
ParseTriplet(s) ==
    LET buf  == TrimRight(s)
        rest == After(buf)
    IN  IF ~ (HasSep(buf) /\ HasSep(rest) /\ IsStamp(TrimRight(Before(buf))))
        THEN Unreadable
        ELSE <<TextRow(Cut(TrimRight(Before(rest))),
                       Cut(TrimRight(Body(After(rest)))),
                       Repeats(After(rest)))>>

\* Mutant: the first field is not looked at.
IsMultiTripletLax(s) ==
    LET third == After(After(TrimRight(s)))
        word  == SelectInSeq(third, LAMBDA e : e # " ")
    IN  /\ HasSep(TrimRight(s)) /\ HasSep(After(TrimRight(s)))
        /\ word # 0 /\ third[word] \in {"HH", "TS"}

\* is_multi_triplet: the third field, not the first, begins with a stamp.
IsMultiTriplet(s) ==
    LET buf   == TrimRight(s)
        third == After(After(buf))
        word  == SelectInSeq(third, LAMBDA e : e # " ")
    IN  /\ HasSep(buf) /\ HasSep(After(buf))
        /\ ~ StartsWith(buf, {"HH", "TS"})
        /\ word # 0 /\ third[word] \in {"HH", "TS"}

\* parse_multi_triplet: TASK%%COMMENT%%TS[%%repeat]
ParseMultiTriplet(s) ==
    LET buf  == TrimRight(s)
        rest == After(buf)
        last == TrimRight(After(rest))
    IN  IF ~ IsStamp(TrimRight(Body(last))) THEN Unreadable
        ELSE <<TextRow(TrimRight(Cut(Before(buf))),
                       Cut(TrimRight(Before(rest))),
                       Repeats(last))>>

\* is_weekday_expr: at least four fields, the first a weekday expression.
IsWeekdayExpr(s) ==
    LET buf == TrimBoth(s)
    IN  /\ HasSep(buf) /\ HasSep(After(buf)) /\ HasSep(After(After(buf)))
        /\ Before(buf) = <<"mon">>

\* expand_weekday_triplet: DAY%%TIME%%TASK%%COMMENT; its rows, one for each
\* day, differ in their times only.
ExpandedRow(s) ==
    LET rest  == After(TrimBoth(s))
        named == After(rest)
    IN  IF ~ StartsWith(TrimBoth(Before(rest)), {"HH"}) THEN Unreadable
        ELSE <<TextRow(Cut(TrimBoth(Before(named))),
                       Cut(TrimBoth(After(named))), TRUE)>>

\* cmd_add: the weekday form first, then parse_any_triplet.
Entered(s) ==
    CASE IsWeekdayExpr(s) -> ExpandedRow(s)
      [] ~ IsWeekdayExpr(s) /\ IsMultiTriplet(s) -> ParseMultiTriplet(s)
      [] OTHER -> ParseTriplet(s)

-----------------------------------------------------------------------------
(* The file                                                                *)

\* Mutant: the repetition is not written.
LineOnce(r) == <<"TS">> \o Sep \o r.task \o Sep \o r.comment \o <<"\n">>

\* Mutant: a blank after each separator.
LinePadded(r) == <<"TS">> \o Sep \o <<" ">> \o r.task \o Sep \o <<" ">> \o r.comment
                    \o (IF r.does_repeat THEN Sep \o <<"repeat">> ELSE <<>>) \o <<"\n">>

\* One fprintf of todox_write_config.
Line(r) == <<"TS">> \o Sep \o r.task \o Sep \o r.comment
              \o (IF r.does_repeat THEN Sep \o <<"repeat">> ELSE <<>>) \o <<"\n">>

\* fgets: the line that ends at i, without its end.
LineAt(s, i) == SubSeq(s, SelectLastInSubSeq(s, 1, i - 1, LAMBDA e : e = "\n") + 1, i - 1)

\* todox_parse_config of what todox_write_config wrote; lines that are not
\* triplets are skipped.
Rewritten(lst) ==
    LET s == FlattenSeq([k \in DOMAIN lst |-> Line(lst[k])])
    IN  FlattenSeq([i \in DOMAIN s |-> IF s[i] = "\n" THEN ParseTriplet(LineAt(s, i))
                                                      ELSE <<>>])

-----------------------------------------------------------------------------
(* A row is entered in an empty file, and other processes write the file.  *)

Typed(head, fields) ==
    head \o FlattenSeq([i \in DOMAIN fields |-> Sep \o fields[i]])

TextInit == born = <<>> /\ rows = <<>>

EnterText ==
    /\ born = <<>>
    /\ \E head \in Heads, f2, f3, f4 \in FieldTexts :
          \E s \in {Typed(head, <<f2, f3>>), Typed(head, <<f2, f3, f4>>)} :
              /\ born' = Entered(s)
              /\ rows' = Entered(s)

Rewrite == /\ born # <<>>
           /\ rows' = Rewritten(rows)
           /\ UNCHANGED born

TextNext == EnterText \/ Rewrite

TextSpec == TextInit /\ [][TextNext]_text

-----------------------------------------------------------------------------
(* Properties                                                              *)

EndsIn(s, tokens) == s # <<>> /\ s[Len(s)] \in tokens

\* The rows the format can hold.
Plain(r) ==
    /\ ~ Contains(r.task, "\n") /\ ~ Contains(r.comment, "\n")
    /\ ~ HasSep(r.task) /\ ~ EndsIn(r.task, {"%", " "})
    /\ ~ EndsIn(r.comment, {" "})
    /\ IF r.does_repeat
       THEN ~ HasSep(r.comment) /\ ~ EndsIn(r.comment, {"%"})
       ELSE ~ Repeats(r.comment)

\* A row comes back from the file as it was written exactly if it is Plain: a
\* separator in the comment of a weekly row, a `%` before a separator, a line
\* break, or a blank that cutting left at the end changes it.
PlainSurvives ==
    \A i \in DOMAIN rows : Rewritten(<<rows[i]>>) = <<rows[i]>> <=> Plain(rows[i])

\* Every process writes back what it read.  That cannot go on changing a row:
\* its line stays as it is or gets shorter.
Settles ==
    \A i \in DOMAIN rows : ~ Contains(rows[i].task \o rows[i].comment, "\n") =>
        LET line  == Line(rows[i])
            again == FlattenSeq([k \in DOMAIN Rewritten(<<rows[i]>>) |->
                                    Line(Rewritten(<<rows[i]>>)[k])])
        IN  again = line \/ Len(again) < Len(line)

\* All three forms of `add` give the same row, exactly if the task or comment
\* cannot be mistaken for a separator, a stamp, a weekday or padding.
FormsAgree ==
    \A r \in ToSet(born) : Plain(r) =>
        LET token == IF r.does_repeat THEN Sep \o <<"repeat">> ELSE <<>>
            fit   == ~ HasSep(r.comment) /\ ~ EndsIn(r.comment, {"%"})
        IN  /\ Entered(<<"HH">> \o Sep \o r.task \o Sep \o r.comment \o token) = <<r>>
            /\ ~ StartsWith(r.task, {"HH", "TS"}) =>
                  (Entered(r.task \o Sep \o r.comment \o Sep \o <<"HH">> \o token) = <<r>>
                      <=> fit /\ ~ (r.does_repeat /\ TrimLeft(r.task) = <<"mon">>))
            /\ r.does_repeat =>
                  (Entered(<<"mon">> \o Sep \o <<"HH">> \o Sep
                              \o r.task \o Sep \o r.comment) = <<r>>
                      <=> TrimLeft(r.task) = r.task /\ TrimLeft(r.comment) = r.comment)

\* An alarm entered as weekly stays weekly.
WeeklyStaysWeekly ==
    \A r \in ToSet(born) :
        r.does_repeat => \A i \in DOMAIN rows : rows[i].does_repeat
=============================================================================
