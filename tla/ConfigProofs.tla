---------------------------- MODULE ConfigProofs ----------------------------
(***************************************************************************)
(* What Config's loading gives for every file and every argument.          *)
(***************************************************************************)
EXTENDS Config, TLAPS

\* A port is what the last line of its key says, if that is a port, and otherwise what it
\* was before the file: an earlier good line does not count (LoadServerConfig, ApplyPort).
THEOREM LastLineDecides ==
  ASSUME NEW file \in Files, NEW key \in Texts, NEW port,
         NEW i, IsLast(file, key, i)
  PROVE  ApplyPort(file, key, port)
           = IF Leading[file[i].value] \in Ports THEN Leading[file[i].value] ELSE port
<1>1. Setting(file, key) \subseteq Int
  BY DEF Setting
<1>2. \A j \in Setting(file, key) : IsLast(file, key, j) => j = i
  BY <1>1 DEF IsLast
<1>3. i \in Setting(file, key) /\ Setting(file, key) # {}
  BY DEF IsLast
<1> HIDE DEF Setting
<1>4. (CHOOSE j \in Setting(file, key) : IsLast(file, key, j)) = i
  BY <1>2, <1>3, Zenon
<1>5. Value(file, key) = file[i].value
  BY <1>4, Zenon DEF Value
<1> QED  BY <1>3, <1>5, Zenon DEF ApplyPort

LEMMA AppliedPort ==
  ASSUME NEW file, NEW key, NEW port \in Ports
  PROVE  ApplyPort(file, key, port) \in Ports
BY Zenon DEF ApplyPort

LEMMA AppliedHost ==
  ASSUME NEW file, NEW key, NEW host, host # NoText
  PROVE  ApplyHost(file, key, host) # NoText
BY Zenon DEF ApplyHost

\* Whatever server.ini holds, the two listeners get a port that exists (LoadServerConfig
\* in the server's main).
THEOREM ServerPortsAreValid ==
  ASSUME NEW file, NEW K
  PROVE  LoadServerConfig(file, K, ServerDefaults) \in [TcpPort : Ports, UdpPort : Ports]
<1>1. ServerDefaults \in [TcpPort : Ports, UdpPort : Ports]
  BY DEF ServerDefaults, Ports, MaxPort
<1>2. /\ ApplyPort(file, K.TcpPort, ServerDefaults.TcpPort) \in Ports
      /\ ApplyPort(file, K.UdpPort, ServerDefaults.UdpPort) \in Ports
  BY <1>1, AppliedPort
<1> QED  BY <1>1, <1>2 DEF LoadServerConfig

-----------------------------------------------------------------------------
(* The console client *)

ClientFields == {"Host", "TcpPort", "UdpPort", "ServerUdpPort"}

\* A configuration with which a connection can be tried.
IsUsable(config) ==
  /\ config.Host # NoText
  /\ config.TcpPort \in Ports /\ config.UdpPort \in Ports /\ config.ServerUdpPort \in Ports

LEMMA LoadedIsUsable ==
  ASSUME NEW file, NEW K, NEW config, IsUsable(config)
  PROVE  IsUsable(LoadClientConfig(file, K, config))
<1>1. CASE file = NoFile
  BY <1>1 DEF LoadClientConfig
<1>2. CASE file # NoFile
  <2>1. ApplyHost(file, K.Host, config.Host) # NoText
    BY AppliedHost, Zenon DEF IsUsable
  <2>2. /\ ApplyPort(file, K.TcpPort, config.TcpPort) \in Ports
        /\ ApplyPort(file, K.UdpPort, config.UdpPort) \in Ports
        /\ ApplyPort(file, K.ServerUdpPort, config.ServerUdpPort) \in Ports
    BY AppliedPort, Zenon DEF IsUsable
  <2> QED  BY <1>2, <2>1, <2>2 DEF LoadClientConfig, IsUsable
<1> QED  BY <1>1, <1>2

\* What strtoul gives is a value of its 32-bit type, and the port it names is accepted
\* only if the text begins with it or with a number that wraps around to it.
LEMMA Argument ==
  ASSUME NEW text, Leading[text] \in Int \union {NoNumber}, NoNumber \notin Int,
         ~InvalidArgument(text)
  PROVE  /\ StrToUL(text) \in Ports
         /\ Leading[text] \in {StrToUL(text), StrToUL(text) - ULongModulus}
<1> DEFINE n == Leading[text]
           u == StrToUL(text)
<1>1. ULongModulus = 4294967296
  BY DEF ULongModulus
<1>2. u # 0 /\ ~(u > MaxPort)
  BY DEF InvalidArgument
<1>3. CASE n = NoNumber
  BY <1>2, <1>3 DEF StrToUL
<1>4. CASE n \in Int /\ n # NoNumber
  <2>1. u = IF -ULongModulus < n /\ n < 0 THEN ULongModulus + n
            ELSE IF 0 <= n /\ n < ULongModulus THEN n ELSE ULongModulus - 1
    BY <1>1, <1>4, SMT DEF StrToUL
  <2>2. u \in Ports /\ (n = u \/ n = u - ULongModulus)
    <3> HIDE DEF n, u
    <3>1. n \in Int /\ u \in Int /\ u # 0 /\ ~(u > 65535)
      BY <1>1, <1>2, <1>4, <2>1, SMTT(60) DEF MaxPort
    <3>2. 0 < u /\ (n = u \/ n = u - ULongModulus)
      BY <1>1, <2>1, <3>1, SMTT(60)
    <3> QED  BY <3>1, <3>2, SMTT(60) DEF Ports, MaxPort
  <2> QED  BY <2>2
<1> QED  BY <1>3, <1>4

\* Whatever client.ini holds and whatever the argument is, main either gives up or connects
\* with a host and ports that exist; an argument it accepts is the UDP port, whatever the
\* file says (main of the console client).
THEOREM ClientStartsUsable ==
  ASSUME NEW file, NEW K, NEW localhost, localhost # NoText,
         NEW args \in Seq(Texts),
         \A t \in Texts : Leading[t] \in Int \union {NoNumber}, NoNumber \notin Int,
         NEW config, config = ClientMain(file, K, localhost, args), config # NoText
  PROVE  /\ IsUsable(config)
         /\ Len(args) = 1 => config.UdpPort = StrToUL(args[1])
<1> DEFINE loaded == LoadClientConfig(file, K, ClientDefaults(localhost))
<1>1. IsUsable(ClientDefaults(localhost))
  BY DEF IsUsable, ClientDefaults, Ports, MaxPort
<1>2. IsUsable(loaded)
  BY <1>1, LoadedIsUsable, Zenon
<1>3. DOMAIN loaded = ClientFields
  BY DEF LoadClientConfig, ClientDefaults, ClientFields
<1>4. Len(args) \in Nat
  OBVIOUS
<1> HIDE DEF loaded
<1>5. CASE Len(args) = 0
  BY <1>2, <1>5 DEF ClientMain, loaded
<1>6. CASE Len(args) = 1
  <2>1. args[1] \in Texts /\ ~InvalidArgument(args[1])
    BY <1>6 DEF ClientMain
  <2>2. StrToUL(args[1]) \in Ports
    BY <2>1, Argument
  <2>3. config = [loaded EXCEPT !.UdpPort = StrToUL(args[1])]
    BY <1>6, <2>1 DEF ClientMain, loaded
  <2> QED  BY <1>2, <1>3, <2>2, <2>3 DEF IsUsable, ClientFields
<1>7. CASE Len(args) > 1
  BY <1>7 DEF ClientMain
<1> QED  BY <1>4, <1>5, <1>6, <1>7, SMTT(60)
=============================================================================
