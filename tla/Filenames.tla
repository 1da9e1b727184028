------------------------------ MODULE Filenames ------------------------------
(***************************************************************************)
(* What makes a name of a server, a URL or a torrent a file name           *)
(* (filename.rs, sanitize_filename), and which names are accepted where    *)
(* one is given (path.rs, validate_leaf_filename).  Restore refuses a      *)
(* database with a name that is not, so sanitizing must not need a second  *)
(* pass.                                                                   *)
(*                                                                         *)
(* A name is a sequence of characters of these classes: "a" a letter, "."  *)
(* " " and "_" themselves, "/" one that is not allowed, "w" a white space  *)
(* other than " ", of three bytes, "D" a device name such as CON.          *)
(***************************************************************************)
EXTENDS Naturals, Sequences, FiniteSets, SequencesExt

CONSTANTS
  MaxComponentBytes,   \* bytes of a name (240 in the code)
  ExtensionBytes,      \* an extension that is kept is shorter (16 in the code)
  MaxLength            \* bound: characters of a name given

VARIABLES
  raw,    \* a name as it was given
  name    \* what it was sanitized to

vars == <<raw, name>>

Characters == {"a", ".", " ", "/", "w", "D"}
Fallback == <<"a">>

(* One byte a character, and two more for each "w".                        *)
Bytes(s) == Len(s) + 2 * Cardinality({i \in DOMAIN s : s[i] = "w"})

Longest(S) == CHOOSE s \in S : \A t \in S : Len(t) <= Len(s)

Truncate(s, max) == Longest({t \in Prefixes(s) : Bytes(t) <= max})

TrimEnd(s, chars) == Longest({t \in Prefixes(s) : t = <<>> \/ t[Len(t)] \notin chars})

TrimStart(s, chars) == Reverse(TrimEnd(Reverse(s), chars))

Trim(s) == TrimEnd(TrimStart(s, {" ", "w"}), {".", " "})

(* Two dots become one "_", so no name climbs to a parent.                 *)
Joined(t, c) ==
  IF c = "." /\ t # <<>> /\ t[Len(t)] = "." THEN [t EXCEPT ![Len(t)] = "_"] ELSE Append(t, c)

WithoutDotDot(s) == FoldLeft(Joined, <<>>, s)

Mapped(s) == [i \in DOMAIN s |-> IF s[i] = "/" THEN "_" ELSE s[i]]

Dots(s) == {i \in DOMAIN s : s[i] = "."}

(* A mutant: where a name is cut, what is left may end with a dot.         *)
TruncateAsIs(s) == Truncate(s, MaxComponentBytes)

TruncateKeepingExtension(s) ==
  IF Bytes(s) <= MaxComponentBytes THEN s
  ELSE LET dot == IF Dots(s) = {} THEN 0 ELSE Max(Dots(s))
           extension == SubSeq(s, dot + 1, Len(s))
           head == Truncate(SubSeq(s, 1, dot - 1), MaxComponentBytes - Bytes(extension) - 1)
       IN IF dot # 0 /\ extension # <<>> /\ Bytes(extension) < ExtensionBytes
          THEN Append(TrimEnd(head, {"."}), ".") \o extension
          ELSE Trim(Truncate(s, MaxComponentBytes))

(* A device stays reserved with any extension and spaces before it.        *)
Reserved(s) ==
  LET stem == IF Dots(s) = {} THEN s ELSE SubSeq(s, 1, Min(Dots(s)) - 1)
  IN TrimEnd(stem, {" "}) = <<"D">>

Sanitize(s) ==
  LET short == TruncateKeepingExtension(Trim(Mapped(WithoutDotDot(s))))
  IN IF short = <<>> THEN Fallback
     ELSE IF Reserved(short) THEN Trim(Truncate(<<"_">> \o short, MaxComponentBytes))
     ELSE short

ValidComponent(s) ==
  /\ Bytes(s) <= MaxComponentBytes
  /\ \A i \in DOMAIN s : s[i] # "/"
  /\ s # <<>> => s[Len(s)] \notin {".", " "}
  /\ ~Reserved(s)

ValidLeaf(s) == s # <<>> /\ s = Sanitize(s) /\ ValidComponent(s)

Given == UNION {[1 .. n -> Characters] : n \in 0 .. MaxLength}

Init == raw \in Given /\ name = <<>>

Next == name = <<>> /\ name' = Sanitize(raw) /\ UNCHANGED raw

Spec == Init /\ [][Next]_vars

(***************************************************************************)
(* Whatever it was made of, a sanitized name is accepted as a file name:   *)
(* it is not empty, fits, is no device and sanitizing it again leaves it   *)
(* as it is, although each of trimming, cutting and escaping may undo what *)
(* another one did.                                                        *)
(***************************************************************************)
NamesAreStable == name # <<>> => ValidLeaf(name)
=============================================================================
