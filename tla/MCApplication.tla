---------------------------- MODULE MCApplication ----------------------------
(***************************************************************************)
(* Application with command lines and files as they are documented and as  *)
(* they are not.                                                           *)
(***************************************************************************)
EXTENDS Application

CommandLine(word, configName) ==
  << "--id", word, "--hosts", "hosts", "--barrier", "localhost:11000",
     "--signal", "localhost:11011", "--output", "out", configName >>

Host(n) == << n, 127, 11000 + n >>

Files(hostLines, configLines) == ("hosts" :> hostLines) @@ ("config" :> configLines)

Start2 == Files(<< Host(1), Host(2) >>, << <<2>>, <<1, 2>>, <<2>> >>)

\* The README's kind of example: lines in any order, a blank one among them.
Start3 == Files(<< Host(3), << >>, Host(1), Host(2) >>,
                << <<2>>, <<3, 1>>, <<1>>, <<2, 3, 1>> >>)

\* Host 03 is host 3.
Accepted ==
  { [argv |-> CommandLine("1", "config"), files |-> Start2],
    [argv |-> CommandLine("03", "config"), files |-> Start3] }

\* No number, no such host, no such file, too few words, an option misplaced.
BadCommandLines ==
  { [argv |-> a, files |-> Start2] :
      a \in { CommandLine("one", "config"), CommandLine("", "config"), CommandLine("1a", "config"),
              CommandLine("0", "config"), CommandLine("12", "config"), CommandLine("1", "missing"),
              Front(CommandLine("1", "config")), Tail(CommandLine("1", "config")) } }

\* One host, a gap, a line cut short; and an id used twice, which is accepted,
\* with a config that has a blank line for a process.
BadFiles ==
  { [argv |-> CommandLine("1", "config"), files |-> Files(h, << <<1>>, <<1>>, << >>, <<3>> >>)] :
      h \in { << Host(1) >>, << Host(1), Host(3) >>, << Host(1), <<2, 127>> >>,
              << Host(1), Host(3), Host(3) >> } }

AllInputs == Accepted \cup BadCommandLines \cup BadFiles

=============================================================================
