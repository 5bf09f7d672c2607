------------------------------- MODULE Paths -------------------------------
(***************************************************************************)
(* The functions of wz::fs on the text of a path.  A path is a sequence of *)
(* characters; a letter stands for every character that is not special.    *)
(* text is a path that a program makes with them, step by step.            *)
(***************************************************************************)
EXTENDS Naturals, Sequences

CONSTANTS Letter,  \* characters for which isalpha is true
          MaxPath  \* bound: length of text

ASSUME LetterAssumption == Letter \cap {"/", "\\", ":", "."} = {} /\ MaxPath \in Nat

VARIABLE text

Separator == {"/", "\\"}
Char == Letter \cup Separator \cup {":", "."}

\* The place of the last character of path in S, or 0.
find_last_of(path, S) ==
    LET at == {i \in DOMAIN path : path[i] \in S}
    IN  IF at = {} THEN 0 ELSE CHOOSE i \in at : \A j \in at : j <= i

Texts(n) == UNION {[1 .. k -> Char] : k \in 0 .. n}

Prefix(path, n) == SubSeq(path, 1, n)
Suffix(path, n) == SubSeq(path, n, Len(path))

-----------------------------------------------------------------------------
(* A slip: what a function below would be with one plausible mistake.        *)

\* "C:\x" is not told from "\foo" and its like: the parent loses its separator.
parent_path_NoDrive(path) ==
    LET pos == find_last_of(path, Separator)
    IN  IF pos = 0 THEN <<>> ELSE Prefix(path, IF pos = 1 THEN 1 ELSE pos - 1)

-----------------------------------------------------------------------------

\* One more character: separators become one of a kind, and runs of them one.
\* (last_was_sep: out ends in a separator.)
Added(out, c) ==
    IF c \notin Separator THEN Append(out, c)
    ELSE IF out # <<>> /\ out[Len(out)] = "\\" THEN out ELSE Append(out, "\\")

Collapsed(path) ==
    LET out[k \in 0 .. Len(path)] == IF k = 0 THEN <<>> ELSE Added(out[k - 1], path[k])
    IN  out[Len(path)]

\* A last separator goes, except in "\" and "C:\".
Trimmed(out) ==
    LET root == Len(out) = 3 /\ out[1] \in Letter /\ out[2] = ":" /\ out[3] = "\\"
    IN  IF ~ root /\ Len(out) > 1 /\ out[Len(out)] = "\\" THEN Prefix(out, Len(out) - 1) ELSE out

normalize(path) == Trimmed(Collapsed(path))

join(a, b) ==
    IF a = <<>> THEN b ELSE IF b = <<>> THEN a
    ELSE LET ends == a[Len(a)] \in Separator
             starts == b[1] \in Separator
         IN  CASE ends /\ starts -> a \o Tail(b)
               [] ~ ends /\ ~ starts -> a \o <<"\\">> \o b
               [] OTHER -> a \o b

parent_path(path) ==
    LET pos == find_last_of(path, Separator)
    IN  CASE pos = 0 -> <<>>
          [] pos = 1 -> Prefix(path, 1)
          [] pos = 3 /\ path[2] = ":" -> Prefix(path, 3)
          [] OTHER -> Prefix(path, pos - 1)

filename(path) == Suffix(path, find_last_of(path, Separator) + 1)

stem(path) ==
    LET file == filename(path)
        pos == find_last_of(file, {"."})
    IN  IF pos \in {0, 1} THEN file ELSE Prefix(file, pos - 1)

extension(path) ==
    LET file == filename(path)
        pos == find_last_of(file, {"."})
    IN  IF pos \in {0, 1} THEN <<>> ELSE Suffix(file, pos + 1)

HasDrive(path) == Len(path) >= 2 /\ path[1] \in Letter /\ path[2] = ":"
IsUNC(path) == Len(path) >= 2 /\ path[1] \in Separator /\ path[2] \in Separator

is_absolute(path) == HasDrive(path) \/ IsUNC(path)

TextInit == text = <<>>

Made == {normalize(text), parent_path(text), filename(text), stem(text), extension(text)}
        \cup {join(text, b) : b \in Texts(2)}

MakeText ==
    /\ text' \in Made
    /\ Len(text') <= MaxPath

-----------------------------------------------------------------------------
(* Properties *)

\* normalize is a normal form: it is one of itself, it keeps the drive, and after
\* it a drive is all that makes a path absolute: \\server has become \server.
NormalForm(p) ==
    /\ normalize(normalize(p)) = normalize(p)
    /\ HasDrive(normalize(p)) <=> HasDrive(p)
    /\ is_absolute(normalize(p)) <=> HasDrive(p)

\* The parts of a path make the path again; only the dot at the end of a name is
\* lost, which neither stem nor extension has.
PartsMakeWhole(p) ==
    /\ normalize(join(parent_path(p), filename(p))) = normalize(p)
    /\ filename(p) \in {stem(p), stem(p) \o <<".">>, stem(p) \o <<".">> \o extension(p)}
    /\ extension(p) # <<>> => filename(p) = stem(p) \o <<".">> \o extension(p)

\* Two separators and at most a name after them: the server of a UNC path.
NamesServer(path) == IsUNC(path) /\ find_last_of(path, Separator) = 2

\* Going from parent to parent ends, at nothing or at a root.  It keeps the drive
\* until nothing is left, and an absolute path has an absolute parent, with two
\* exceptions: "C:foo" has none, and the parent of \\server, where is_absolute
\* takes the two separators for the sign of a UNC path, is \, which is relative.
WayUpEnds(p) ==
    /\ Len(parent_path(p)) < Len(p) \/ parent_path(p) = p
    /\ p # <<>> /\ parent_path(p) = p => p \in {<<s>> : s \in Separator}
                                         \/ (Len(p) = 3 /\ p[2] = ":" /\ p[3] \in Separator)
    /\ HasDrive(p) /\ parent_path(p) # <<>> => HasDrive(parent_path(p))
    /\ is_absolute(p) =>
          (~ is_absolute(parent_path(p)) <=> find_last_of(p, Separator) = 0 \/ NamesServer(p))

\* It does not matter in which order paths are joined, or which of them had
\* separators at their ends.
JoinsAgree(a, b, c) ==
    /\ normalize(join(join(a, b), c)) = normalize(join(a, join(b, c)))
    /\ b # <<>> => filename(join(a, b)) = filename(b)

PathLaws ==
    text # <<>> =>
        /\ NormalForm(text) /\ PartsMakeWhole(text) /\ WayUpEnds(text)
        /\ \A b, c \in Texts(2) : JoinsAgree(text, b, c)
=============================================================================
