------------------------------- MODULE HpConfig -----------------------------
(***************************************************************************)
(* The INI reader of src/src/config.cpp, one action per round of its loop: *)
(* a file is a sequence of lines, a line a sequence of one-character       *)
(* strings, and what loadFromFile keeps is a function from                 *)
(* <<section, key>> to the value.                                          *)
(***************************************************************************)
EXTENDS Integers, SequencesExt

CONSTANT Files

ASSUME FilesAssumption ==
  \A lines \in Files :
    lines \in Seq(Seq(STRING))

VARIABLES file, lineno, section, data_

configVars == <<file, lineno, section, data_>>

Blank == " "
Comment == {";", "#"}

Trim(s) ==
  LET inked == {k \in DOMAIN s : s[k] # Blank}
  IN IF inked = {} THEN <<>> ELSE SubSeq(s, Min(inked), Max(inked))

Before(s, k) == SubSeq(s, 1, k - 1)
After(s, k) == SubSeq(s, k + 1, Len(s))

\* Faulty variant: the search for '#' overwrites the result of the one for ';'.
CutAtHash(v) ==
  LET p == {k \in DOMAIN v : v[k] = (IF "#" \in Range(v) THEN "#" ELSE ";")}
  IN IF p = {} THEN v ELSE Trim(Before(v, Min(p)))

\* An inline comment starts at the first ';' or '#' of the value.
CutComment(v) ==
  LET p == {k \in DOMAIN v : v[k] \in Comment}
  IN IF p = {} THEN v ELSE Trim(Before(v, Min(p)))

-----------------------------------------------------------------------------
(* loadFromFile.                                                           *)

LoadInit ==
  /\ file \in Files
  /\ lineno = 0 /\ section = <<>> /\ data_ = [e \in {} |-> <<>>]

Stored(entry, value) ==
  [e \in DOMAIN data_ \cup {entry} |-> IF e = entry THEN value ELSE data_[e]]

StartsWith(s, chars) == s # <<>> /\ Head(s) \in chars
Ignored(s) == s = <<>> \/ StartsWith(s, Comment)
InBrackets(s) == StartsWith(s, {"["}) /\ Last(s) = "]"
EqualSigns(s) == {k \in DOMAIN s : s[k] = "="}

SkipLine(s) ==
  /\ Ignored(s) \/ (~InBrackets(s) /\ EqualSigns(s) = {})
  /\ UNCHANGED <<section, data_>>

OpenSection(s) ==
  /\ ~Ignored(s) /\ InBrackets(s)
  /\ section' = Trim(SubSeq(s, 2, Len(s) - 1))
  /\ UNCHANGED data_

KeepValue(s) ==
  /\ ~Ignored(s) /\ ~InBrackets(s) /\ EqualSigns(s) # {}
  /\ LET eq == Min(EqualSigns(s))
     IN data_' = Stored(<<section, Trim(Before(s, eq))>>,
                        CutComment(Trim(After(s, eq))))
  /\ UNCHANGED section

\* One round of the loop over the lines.
ReadLine ==
  /\ lineno < Len(file)
  /\ lineno' = lineno + 1 /\ UNCHANGED file
  /\ LET s == Trim(file[lineno + 1])
     IN SkipLine(s) \/ OpenSection(s) \/ KeepValue(s)

LoadSpec == LoadInit /\ [][ReadLine]_configVars

get(name, key, default_val) ==
  IF <<name, key>> \in DOMAIN data_ THEN data_[<<name, key>>] ELSE default_val

-----------------------------------------------------------------------------
(* What a file says, line by line and without its order of evaluation.     *)

AllBlank(s, P) == \A k \in P : s[k] = Blank

\* t is s without the blanks around it.
TrimsTo(s, t) ==
  /\ t # <<>> => Head(t) # Blank /\ Last(t) # Blank
  /\ \E a \in 0..Len(s) - Len(t) :
       /\ SubSeq(s, a + 1, a + Len(t)) = t
       /\ AllBlank(s, DOMAIN s \ (a + 1..a + Len(t)))

\* The line holds nothing, or a comment only.
CommentLine(line) ==
  \/ AllBlank(line, DOMAIN line)
  \/ \E k \in DOMAIN line : line[k] \in Comment /\ AllBlank(line, 1..k - 1)

\* The line is a name in brackets, from position p to q.
Bracketed(line, p, q) ==
  /\ p < q /\ line[p] = "[" /\ line[q] = "]"
  /\ AllBlank(line, DOMAIN line \ (p..q))
IsHeader(line) == \E p, q \in DOMAIN line : Bracketed(line, p, q)
Header(line, name) ==
  \E p, q \in DOMAIN line :
    Bracketed(line, p, q) /\ TrimsTo(SubSeq(line, p + 1, q - 1), name)

\* The line has its first '=' at p and is neither of these.
Assigns(line, p) ==
  /\ ~CommentLine(line) /\ ~IsHeader(line)
  /\ line[p] = "=" /\ \A k \in 1..p - 1 : line[k] # "="
IsPair(line, key) ==
  \E p \in DOMAIN line : Assigns(line, p) /\ TrimsTo(Before(line, p), key)

\* The line is key = value, and then perhaps a comment, from position q on.
Pair(line, key, value) ==
  \E p \in DOMAIN line, q \in 1..Len(line) + 1 :
    /\ q > p /\ Assigns(line, p) /\ TrimsTo(Before(line, p), key)
    /\ \A k \in p + 1..q - 1 : line[k] \notin Comment
    /\ q <= Len(line) => line[q] \in Comment
    /\ TrimsTo(SubSeq(line, p + 1, q - 1), value)

\* Line j belongs to the section of the last header above it.
InSection(j, name) ==
  \/ name = <<>> /\ \A k \in 1..j - 1 : ~IsHeader(file[k])
  \/ \E h \in 1..j - 1 :
       /\ Header(file[h], name)
       /\ \A k \in h + 1..j - 1 : ~IsHeader(file[k])

\* The lines read give the key of the section this value: the last of them
\* that gives it one.
Says(name, key, value) ==
  \E j \in 1..lineno :
    /\ InSection(j, name) /\ Pair(file[j], key, value)
    /\ \A k \in j + 1..lineno :
         ~(InSection(k, name) /\ IsPair(file[k], key))

-----------------------------------------------------------------------------
(* Properties.                                                             *)

\* The stretches of a line, its possible keys.
Names(line) == {<<>>} \cup {SubSeq(line, a, b) : a, b \in DOMAIN line}

\* get() returns what the lines read say: of a key that a section gives
\* values several times the last one, without its comment; and of every key
\* a line gives a value there is one (config.cpp:37-101).
ConfigMeansTheFile ==
  /\ \A e \in DOMAIN data_ : Says(e[1], e[2], get(e[1], e[2], "default"))
  /\ \A j \in 1..lineno : \A key \in Names(file[j]) :
       IsPair(file[j], key) =>
         \E e \in DOMAIN data_ : e[2] = key /\ InSection(j, e[1])
=============================================================================
