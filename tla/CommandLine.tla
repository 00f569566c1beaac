----------------------------- MODULE CommandLine -----------------------------
(***************************************************************************)
(* The configuration as text.  kdumptool dump_config writes the options    *)
(* for a shell or for the kernel command line (quotedstring.cc,            *)
(* dumpconfig.cc); the crash kernel's kdumptool reads them back from there *)
(* (KernelConfigParser).  The same command line is also read by            *)
(* PathResolver::system_root (mounts.cc) and by the                        *)
(* device-timeout-generator: three parsers that share no code.             *)
(*                                                                         *)
(* A text is a sequence of characters; those that no parser treats in a    *)
(* special way are represented by a few letters and digits.                *)
(***************************************************************************)
EXTENDS Naturals, Sequences, SequencesExt

Quote == "\""
Apostrophe == "'"
Backslash == "\\"
Space == " "
Octal == {"0", "2", "4"}          \* the octal digits that occur
Safe == Octal \cup {"r", "v", "m", "n"}

Map(op(_), text) == [i \in DOMAIN text |-> op(text[i])]

Has(text, char) == Contains(text, char)

\* the character with an octal code
Decoded(digits) ==
    IF digits = <<"0", "4", "2">> THEN Quote
    ELSE IF digits = <<"0", "4", "0">> THEN Space ELSE "other"

(* ---- quotedstring.cc ---- *)

ShellQuoted(value) ==
    LET body == FlattenSeq(Map(LAMBDA c : IF c = Apostrophe
                    THEN <<Apostrophe, Backslash, Apostrophe, Apostrophe>> ELSE <<c>>, value))
    IN  IF \A i \in DOMAIN value : value[i] \in Safe THEN body
        ELSE <<Apostrophe>> \o (IF Last(body) = Apostrophe THEN Front(body)
                                ELSE Append(body, Apostrophe))

\* altered: a backslash is written as it is
KernelEscapeQuoteOnly(c) == IF c = Quote THEN <<Backslash, "0", "4", "2">> ELSE <<c>>

KernelEscape(c) ==
    CASE c = Quote     -> <<Backslash, "0", "4", "2">>
      [] c = Backslash -> <<Backslash, Backslash>>
      [] OTHER         -> <<c>>

KernelQuoted(value) ==
    LET body == FlattenSeq(Map(KernelEscape, value))
    IN  IF Has(value, Space) THEN <<Quote>> \o body \o <<Quote>> ELSE body

(* ---- dumpconfig.cc: a sequence of options [name, value, default, use] ---- *)

Selected(options, usage, nodefault) ==
    SelectSeq(options, LAMBDA o : o.use \cap usage # {} /\ ~(nodefault /\ o.value = o.default))

DumpConfig(options, usage, nodefault, format) ==
    FlattenSeq(Map(LAMBDA o : o.name \o <<"=">>
                        \o (IF format = "shell" THEN ShellQuoted(o.value) \o <<"\n">>
                            ELSE KernelQuoted(o.value) \o <<Space>>),
                   Selected(options, usage, nodefault)))

(* ---- class KernelConfigParser: the assignments, in their order ---- *)

Fresh == [name |-> <<>>, value |-> <<>>, invalue |-> FALSE]

Push(word, chars) ==
    IF word.invalue THEN [word EXCEPT !.value = @ \o chars]
    ELSE [word EXCEPT !.name = @ \o chars]

\* how many octal digits stand after position i, three at most
Digits(text, i) ==
    CHOOSE n \in 0..3 : /\ \A k \in 1..n : i + k <= Len(text) /\ text[i + k] \in Octal
                        /\ n = 3 \/ i + n + 1 > Len(text) \/ text[i + n + 1] \notin Octal

RECURSIVE KernelParse(_, _, _, _, _)

\* The last character ends a word whatever it is; a quote or an escape there
\* leaves the word unread
KernelParse(text, i, word, inquote, found) ==
    LET next(w) == KernelParse(text, i + 1, w, inquote, found)
        c == text[i]
    IN  IF i > Len(text) THEN found
        ELSE IF c = Quote THEN KernelParse(text, i + 1, word, ~inquote, found)
        ELSE IF c = "=" /\ ~word.invalue THEN next([word EXCEPT !.invalue = TRUE])
        ELSE IF (c = Space /\ ~inquote) \/ i = Len(text)
             THEN IF word.name = <<>> THEN next(word)
                  ELSE KernelParse(text, i + 1, Fresh, inquote,
                                   Append(found, <<word.name, word.value>>))
        ELSE IF c # Backslash THEN next(Push(word, <<c>>))
        ELSE IF text[i + 1] = Backslash
             THEN KernelParse(text, i + 2, Push(word, <<Backslash>>), inquote, found)
        ELSE LET n == Digits(text, i)
                 digits == SubSeq(text, i + 1, i + n)
             IN  KernelParse(text, i + n + 1,
                             Push(word, IF n = 3 THEN <<Decoded(digits)>>
                                        ELSE <<Backslash>> \o digits),
                             inquote, found)

Assignments(text) == KernelParse(text, 1, Fresh, FALSE, <<>>)

(* ---- words: what the other two readers have in common ---- *)

\* cut at the spaces that are not inside quotes; there are no empty words
Cut(text) ==
    LET step(st, c) ==
            IF c # Space \/ st.inquote
            THEN [st EXCEPT !.word = Append(@, c), !.inquote = (c = Quote) # @]
            ELSE [st EXCEPT !.word = <<>>, !.words = IF st.word = <<>> THEN @ ELSE Append(@, st.word)]
    IN  FoldLeft(step, [word |-> <<>>, inquote |-> FALSE, words |-> <<>>], text)

Words(text) == LET cut == Cut(text)
               IN  IF cut.word = <<>> THEN cut.words ELSE Append(cut.words, cut.word)

\* altered: the closing quote stays
UnquotedAtStart(word) == IF word # <<>> /\ Head(word) = Quote THEN Tail(word) ELSE word

\* remove_kparam_quotes
Unquoted(word) ==
    IF word = <<>> \/ Head(word) # Quote THEN word
    ELSE LET rest == Tail(word)
         IN  IF rest # <<>> /\ Last(rest) = Quote THEN Front(rest) ELSE rest

(* ---- PathResolver::system_root: the values of root=, before "--" ---- *)

DashDash == <<"-", "-">>

SystemRoot(text, root) ==
    LET words == Map(Unquoted, Words(text))
        stop  == SelectInSeq(words, LAMBDA w : w = DashDash)
        seen  == IF stop = 0 THEN words ELSE SubSeq(words, 1, stop - 1)
        param == Append(root, "=")
        mine  == SelectSeq(seen, LAMBDA w : IsPrefix(param, w))
    IN  Map(LAMBDA w : Unquoted(SubSeq(w, Len(param) + 1, Len(w))), mine)

(* ---- device-timeout-generator: get_arg, parse_args ---- *)

NoValue == <<"no value">>

\* The word is cut at its first "=", in quotes or not.  Quotes around the
\* word are removed with the help of its end: where the key has used the last
\* quote up there is a zero byte.
GetArg(word) ==
    LET eq  == SelectInSeq(word, LAMBDA c : c = "=")
        key == IF eq = 0 THEN word ELSE SubSeq(word, 1, eq - 1)
        whole == Head(word) = Quote /\ Last(word) = Quote
        body == SubSeq(word, eq + 1, IF whole THEN Len(word) - 1 ELSE Len(word))
        val == IF body # <<>> /\ Head(body) = Quote
               THEN (IF ~whole /\ Len(body) > 1 /\ Last(body) = Quote
                     THEN Front(Tail(body)) ELSE Tail(body))
               ELSE body
    IN  IF eq = 0 THEN <<Unquoted(key), NoValue>>
        ELSE <<IF key # <<>> /\ Head(key) = Quote THEN Tail(key) ELSE key, val>>

Args(text) == Map(GetArg, Words(text))

(* ---- what a shell makes of a word (sh) ---- *)

ShellWord(text) ==
    LET step(st, c) ==
            CASE st.mode = "escape" -> [mode |-> "plain", out |-> Append(st.out, c)]
              [] st.mode = "quoted" /\ c # Apostrophe -> [st EXCEPT !.out = Append(@, c)]
              [] st.mode = "quoted" /\ c = Apostrophe -> [st EXCEPT !.mode = "plain"]
              [] st.mode = "plain" /\ c = Apostrophe  -> [st EXCEPT !.mode = "quoted"]
              [] st.mode = "plain" /\ c = Backslash   -> [st EXCEPT !.mode = "escape"]
              [] st.mode = "plain" /\ c \in Safe     -> [st EXCEPT !.out = Append(@, c)]
              [] OTHER -> [st EXCEPT !.mode = "broken"]    \* another word, or a variable
    IN  FoldLeft(step, [mode |-> "plain", out |-> <<>>], text)

(* ---- the three readers ---- *)

Stripped(text) == SelectSeq(text, LAMBDA c : c # Quote)

\* A word without a name swallows the rest of the line (configparser.cc:165)
Nameless(text) == \E w \in ToSet(Words(text)) : IsPrefix(<<"=">>, Stripped(w))

\* quotes around the whole word and another one where its value begins
Doubled(text) ==
    \E w \in ToSet(Words(text)) :
        /\ Head(w) = Quote
        /\ LET eq == SelectInSeq(w, LAMBDA c : c = "=")
           IN  eq \in 1..(Len(w) - 1) /\ w[eq + 1] = Quote

(***************************************************************************)
(* What one part of kdump writes another part reads: the options that      *)
(* dump_config writes for the command line are what the crash kernel's     *)
(* kdumptool finds there, whatever characters they have                    *)
(* (quotedstring.cc:75-101, configparser.cc:132-203), provided that        *)
(* something follows: the line ends with a space or a line feed.  A shell  *)
(* that reads a value gets the value (quotedstring.cc:37-68).              *)
(***************************************************************************)
ReadsBack(options, usage, nodefault) ==
    LET chosen == Selected(options, usage, nodefault)
    IN  /\ Assignments(DumpConfig(options, usage, nodefault, "kernel"))
             = Map(LAMBDA o : <<o.name, o.value>>, chosen)
        /\ \A i \in DOMAIN options :
              ShellWord(ShellQuoted(options[i].value)) = [mode |-> "plain", out |-> options[i].value]

(***************************************************************************)
(* The readers agree about a parameter.  system_root and the generator     *)
(* find the same values unless quotes stand in quotes; the generator reads *)
(* on after "--", system_root does not; KernelConfigParser, which drops    *)
(* every quote, finds the same words but for the quotes, as long as the    *)
(* text has no word without a name and the line does not end in quotes.    *)
(***************************************************************************)
Agree(text, root) ==
    LET args == Args(text)
        stop == SelectInSeq(Words(text), LAMBDA w : Unquoted(w) = DashDash)
        seen == IF stop = 0 THEN args ELSE SubSeq(args, 1, stop - 1)
        mine == SelectSeq(seen, LAMBDA a : a[1] = root /\ a[2] # NoValue)
        bare == SelectSeq(args, LAMBDA a : Stripped(a[1]) # <<>>)
    IN  /\ ~Doubled(text) => SystemRoot(text, root) = Map(LAMBDA a : a[2], mine)
        /\ ~Has(text, Backslash) /\ ~Nameless(text) /\ text # <<>> /\ Cut(text).word = <<>>
             => Assignments(text) =
                Map(LAMBDA a : <<Stripped(a[1]), IF a[2] = NoValue THEN <<>> ELSE Stripped(a[2])>>,
                    bare)
=============================================================================
