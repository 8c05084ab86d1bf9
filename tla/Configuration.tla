---------------------------- MODULE Configuration ----------------------------
(***************************************************************************)
(* What a process is started with and what parser.hpp and                  *)
(* config-parser.cpp make of it: the command line, a sequence of words; a  *)
(* hosts file and a config file, sequences of lines, a line being the      *)
(* sequence of its fields.  Fields are natural numbers, ip addresses       *)
(* included.                                                               *)
(***************************************************************************)
EXTENDS Integers, Sequences, SequencesExt, Functions, TLC

\* argv[1], argv[3], ... of a command line that is accepted.
Options == << "--id", "--hosts", "--barrier", "--signal", "--output" >>

\* isPositiveNumber: nothing but digits, "0" too; stoul reads them as a decimal
\* number (which fits: bound on the words).
digit(word, i) == CHOOSE d \in 0 .. 9 : ToString(d) = SubSeq(word, i, i)
isPositiveNumber(word) ==
  word # "" /\ \A i \in 1 .. Len(word) : \E d \in 0 .. 9 : ToString(d) = SubSeq(word, i, i)
stoul(word) ==
  FoldLeft(LAMBDA n, d : 10 * n + d, 0, [i \in 1 .. Len(word) |-> digit(word, i)])

\* Each option at its place, and a config path after them; argv[0] is not in argv.
parseInternal(argv) ==
  /\ Len(argv) >= 11
  /\ \A i \in DOMAIN Options : argv[2 * i - 1] = Options[i]
  /\ isPositiveNumber(argv[2])

id(argv) == stoul(argv[2])
hostsPath(argv) == argv[4]
configPath(argv) == argv[11]

\* Slip: the entries stay as they were read.
AsRead(I, keys) ==
  { f \in Bijection(1 .. Cardinality(I), I) : \A i, j \in DOMAIN f : i < j => f[i] < f[j] }

\* The orders std::sort may leave the entries I of a list in: by their keys, and
\* those with equal ones in any order.
Sorted(I, keys) ==
  { f \in Bijection(1 .. Cardinality(I), I) :
      \A i, j \in DOMAIN f : i < j => keys[f[i]] <= keys[f[j]] }

-----------------------------------------------------------------------------
(***************************************************************************)
(* Parser::hosts.                                                          *)
(***************************************************************************)
\* The lines that are not blank, by their places.
Entries(lines) == { i \in DOMAIN lines : lines[i] # << >> }

\* Two hosts or more, with ids the least of which is 1 and the greatest their
\* number; that they differ is not looked at.
HostsAccepted(lines) ==
  LET n == Cardinality(Entries(lines))
      ids == { lines[i][1] : i \in Entries(lines) }
  IN  /\ \A i \in Entries(lines) : Len(lines[i]) >= 3
      /\ n >= 2
      /\ {1, n} \subseteq ids
      /\ ids \subseteq 1 .. n

\* iss >> id >> ip >> port: what comes after them is not read.
HostOf(line) == [id |-> line[1], ip |-> line[2], port |-> line[3]]

HostLists(lines) ==
  { [i \in DOMAIN f |-> HostOf(lines[f[i]])] :
      f \in Sorted(Entries(lines), [i \in Entries(lines) |-> HostOf(lines[i]).id]) }

-----------------------------------------------------------------------------
(***************************************************************************)
(* ConfigParser.                                                           *)
(***************************************************************************)
\* A number that cannot be read is 0.
FirstNumber(line) == IF line = << >> THEN 0 ELSE Head(line)

parse_message_num(lines) == IF lines = << >> THEN 0 ELSE FirstNumber(Head(lines))

\* A process counted from 1, and those that affect it, counted from 0;
\* ProcessId is std::uint8_t.
parse_dependency(line) ==
  [process |-> FirstNumber(line) % 256,
   depends |-> [i \in 1 .. Len(line) - 1 |-> (line[i + 1] - 1) % 256]]

DependencyLists(lines) ==
  { [i \in DOMAIN f |-> parse_dependency(lines[f[i]])] :
      f \in Sorted(2 .. Len(lines),
                   [i \in 2 .. Len(lines) |-> parse_dependency(lines[i]).process]) }

-----------------------------------------------------------------------------
(***************************************************************************)
(* The files the README asks for: the ids of the hosts are 1, ..., n, and  *)
(* the config has a line for each of them, which names no process twice,   *)
(* both in any order.                                                      *)
(***************************************************************************)
\* The room of VectorClock and of Dependency::depends; neither checks it.
MAX_PROCESSES == 128

Documented(hostLines, configLines) ==
  LET n == Cardinality(Entries(hostLines))
  IN  /\ HostsAccepted(hostLines)
      /\ n <= MAX_PROCESSES
      /\ { hostLines[i][1] : i \in Entries(hostLines) } = 1 .. n
      /\ Len(configLines) = n + 1
      /\ \A i \in 2 .. n + 1 :
           Len(configLines[i]) \in 1 .. n /\ ToSet(configLines[i]) \subseteq 1 .. n
      /\ { configLines[i][1] : i \in 2 .. n + 1 } = 1 .. n

=============================================================================
