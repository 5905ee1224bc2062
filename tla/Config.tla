------------------------------- MODULE Config -------------------------------
(***************************************************************************)
(* Common::Config: how server.ini and client.ini, and the argument of the  *)
(* console client, become the ports and the host a program starts with.    *)
(*                                                                         *)
(* A text is a member of Texts, trimmed; what matters of it is whether it  *)
(* is empty and the integer it begins with, which is all that std::stoi    *)
(* and strtoul look at (so "6500   # a comment" is the port 6500).         *)
(***************************************************************************)
EXTENDS Integers, Sequences

CONSTANTS Texts,    \* keys, values and host names
          NoText,   \* the empty one
          Leading,  \* of each text: the integer it begins with, or NoNumber
          NoNumber,
          NoFile    \* a path that cannot be opened

MaxPort == 65535

ServerDefaults == [TcpPort |-> 5000, UdpPort |-> 6500]

ClientDefaults(localhost) ==
  [Host |-> localhost, TcpPort |-> 5000, UdpPort |-> 6000, ServerUdpPort |-> 6500]

Ports == 1 .. MaxPort

-----------------------------------------------------------------------------
(* The file                                                                     *)

\* A line that is empty, a comment or without a "=" is Skipped; of any other, both sides
\* of its first "=" count.
Skipped == "skipped"

Entries == [key : Texts, value : Texts]

Files == Seq(Entries \union {Skipped})

\* The lines of file that set key; the loop of TryReadKeyValues drops those without a key.
Setting(file, key) == {i \in 1 .. Len(file) : file[i] # Skipped /\ file[i].key = key /\ key # NoText}

\* values[key] = value: a later line of the same key replaces an earlier one.
IsLast(file, key, i) == i \in Setting(file, key) /\ \A j \in Setting(file, key) : j <= i

Value(file, key) == file[CHOOSE i \in Setting(file, key) : IsLast(file, key, i)].value

\* stoi throws for a text without a number and for one beyond int; neither is a port.
ApplyPort(file, key, port) ==
  IF Setting(file, key) # {} /\ Leading[Value(file, key)] \in Ports
  THEN Leading[Value(file, key)]
  ELSE port

ApplyHost(file, key, host) ==
  IF Setting(file, key) # {} /\ Value(file, key) # NoText THEN Value(file, key) ELSE host

\* (K: the texts that are the names of the settings)
LoadServerConfig(file, K, config) ==
  IF file = NoFile THEN config
  ELSE [ TcpPort |-> ApplyPort(file, K.TcpPort, config.TcpPort),
         UdpPort |-> ApplyPort(file, K.UdpPort, config.UdpPort) ]

LoadClientConfig(file, K, config) ==
  IF file = NoFile THEN config
  ELSE [ Host          |-> ApplyHost(file, K.Host, config.Host),
         TcpPort       |-> ApplyPort(file, K.TcpPort, config.TcpPort),
         UdpPort       |-> ApplyPort(file, K.UdpPort, config.UdpPort),
         ServerUdpPort |-> ApplyPort(file, K.ServerUdpPort, config.ServerUdpPort) ]

-----------------------------------------------------------------------------
(* The console client's argument                                                *)

ULongModulus == 2^32

\* strtoul: a negative number wraps around, one too large for the type is its maximum.
StrToUL(text) ==
  LET n == Leading[text] IN
  IF n = NoNumber THEN 0
  ELSE IF -ULongModulus < n /\ n < 0 THEN ULongModulus + n
  ELSE IF 0 <= n /\ n < ULongModulus THEN n
  ELSE ULongModulus - 1

InvalidArgument(text) == StrToUL(text) = 0 \/ StrToUL(text) > MaxPort

\* What main hands to GameClient::Connect: the configuration, or NoText if it gives up.
\* (args: the texts behind the program's name)
ClientMain(file, K, localhost, args) ==
  LET config == LoadClientConfig(file, K, ClientDefaults(localhost)) IN
  CASE Len(args) = 0 -> config
    [] Len(args) = 1 /\ ~InvalidArgument(args[1]) -> [config EXCEPT !.UdpPort = StrToUL(args[1])]
    [] Len(args) = 1 /\ InvalidArgument(args[1])  -> NoText
    [] Len(args) > 1 -> NoText
=============================================================================
