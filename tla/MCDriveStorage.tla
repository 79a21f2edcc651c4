--------------------------- MODULE MCDriveStorage ---------------------------
EXTENDS DriveStorage, TLC

CONSTANTS c1, c2

Visit(path, files) == [path |-> path, files |-> files]
Command(op, visits) == [op |-> op, visits |-> visits]

\* f is uploaded alone, and with a directory that has another one in it.
MCCommands ==
  {Command("create-dir", <<Visit(<<"b">>, {})>>),
   Command("delete-dir", <<Visit(<<"a">>, {})>>),
   Command("upload", <<Visit(<<"a">>, {"f"})>>),
   Command("upload", <<Visit(<<"a">>, {"f"}), Visit(<<"a", "b">>, {"f"})>>),
   Command("download-file", <<Visit(<<"a">>, {"f"})>>),
   Command("download-dir", <<Visit(<<"a">>, {})>>)}

ClientSymmetry == Permutations(Clients)
=============================================================================
