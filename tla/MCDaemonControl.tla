-------------------------- MODULE MCDaemonControl --------------------------
(* Two process slots are enough for the old daemon and a new one.  The flags *)
(* users give include one of each kind: --foreground, another socket, two    *)
(* sockets, an empty word, more words than fit in the buffer, --help.        *)
EXTENDS DaemonControl

MCWords == Sockets \cup {"empty", "--help", "--port", "cut"}

MCTypeable ==
  {[foreground |-> TRUE, words |-> <<"--unix b">>],
   [foreground |-> FALSE, words |-> <<"--unix b", "--unix a">>],
   [foreground |-> FALSE, words |-> <<"empty", "--unix b">>],
   [foreground |-> TRUE, words |-> <<"--port", "--port", "--unix b">>],
   [foreground |-> FALSE, words |-> <<"--help">>]}
=============================================================================
