------------------------------- MODULE Config -------------------------------
(***************************************************************************)
(* Config and Application (src/src/common): the key=value file and the     *)
(* command line a process is started with.                                 *)
(*                                                                         *)
(* A line of the file is a sequence of tokens: " ", "#", "=", "\n" stand   *)
(* for themselves, anything else for a word without them.  config_map is a *)
(* function on the keys it holds; keys and values are token sequences.     *)
(* The lines of Files fit the buffer of fgets (1023 bytes): the pieces a   *)
(* longer one is read and parsed in are not modelled.                      *)
(***************************************************************************)
EXTENDS Naturals, SequencesExt

CONSTANTS Files       \* config files that can be opened: function from name to lines

Space   == " "
Hash    == "#"
Equals  == "="
Newline == "\n"

Words == UNION {UNION {Range(line) : line \in Range(Files[f])} : f \in DOMAIN Files}

ASSUME FilesAssumption == \A f \in DOMAIN Files : Files[f] \in Seq(Seq(Words))

(***************************************************************************)
(* Trim strips spaces at both ends, and leaves a text of spaces alone.     *)
(***************************************************************************)
Trim(s) ==
  LET words == {i \in 1 .. Len(s) : s[i] # Space}
  IN  IF words = {} THEN s
      ELSE SubSeq(s, CHOOSE i \in words : \A j \in words : i <= j,
                     CHOOSE i \in words : \A j \in words : i >= j)

(***************************************************************************)
(* What one line adds to config_map: nothing, or one key.                  *)
(***************************************************************************)
NoEntry == [k \in {} |-> << >>]

ParseLine(line) ==
  LET s   == Trim(line)
      eqs == {i \in 1 .. Len(s) : s[i] = Equals}
      eq  == CHOOSE i \in eqs : \A j \in eqs : i <= j
      end == {i \in eq .. Len(s) : s[i] = Newline}
      last == IF end = {} THEN Len(s) ELSE (CHOOSE i \in end : \A j \in end : i <= j) - 1
  IN  IF s = << >> \/ eqs = {} THEN NoEntry
      ELSE IF s[1] = Hash THEN NoEntry
      ELSE [k \in {Trim(SubSeq(s, 1, eq - 1))} |-> Trim(SubSeq(s, eq + 1, last))]

(***************************************************************************)
(* config_map.insert keeps the first value of a key, Write replaces it.    *)
(***************************************************************************)
AddTo(map, more) ==
  [k \in DOMAIN map \cup DOMAIN more |-> IF k \in DOMAIN map THEN map[k] ELSE more[k]]

\* Wrong: a later line replaces an earlier one.
InsertReplaces(map, line) == AddTo(ParseLine(line), map)

Insert(map, line) == AddTo(map, ParseLine(line))

LoadConfigFile(lines) ==
  LET map[i \in 0 .. Len(lines)] == IF i = 0 THEN NoEntry ELSE Insert(map[i - 1], lines[i])
  IN  map[Len(lines)]

Write(map, key, value) == AddTo([k \in {key} |-> value], map)

Load(map, key) == IF key \in DOMAIN map THEN map[key] ELSE << >>

(***************************************************************************)
(* Application::Init.  argv is a sequence of [opt, arg]; the last of equal *)
(* options counts.  The process ends if there is no argument, an unknown   *)
(* option or a file that does not open.                                    *)
(***************************************************************************)
Option(argv, o) ==
  FoldLeft(LAMBDA v, a : IF a.opt = o THEN a.arg ELSE v, << >>, argv)

InitExits(argv) ==
  \/ argv = << >>
  \/ \E i \in 1 .. Len(argv) : argv[i].opt \notin {"i", "a", "p"}
  \/ Option(argv, "i") \notin DOMAIN Files

Override(map, key, given) == IF given = << >> THEN map ELSE Write(map, key, given)

ApplicationInit(argv) ==
  LET map == LoadConfigFile(Files[Option(argv, "i")])
  IN  Override(Override(map, <<"rpcserverip">>, Option(argv, "a")),
               <<"rpcserverport">>, Option(argv, "p"))
=============================================================================
