---------------------------- MODULE NativeGuard ----------------------------
(***************************************************************************)
(* native_encryption.go: the guard of a native connection.  It relays the  *)
(* public negotiation of SSH, TLS, MySQL or PostgreSQL between a client    *)
(* and the target and lets nothing else through until the sender has       *)
(* switched to encryption.  A unit is one packet or record, told apart as  *)
(* the guard tells them apart; a side may send any unit at any time.       *)
(***************************************************************************)
EXTENDS Naturals

VARIABLES
    guard,      \* how far negotiateNativeEncryption is
    ready,      \* sides whose probe (Peek of the first byte) has returned
    half,       \* the operations of nativeBoth that are done, with what they read
    attempt,    \* ClientHello attempts of negotiateNativeTLS
    reader,     \* per side, the state of nativeTLSReader or nativeSSHReader
    passed      \* per side, the units of that side that crossed the guard

guardVars == <<guard, ready, half, attempt, reader, passed>>

Side == {"client", "backend"}
Negotiating == {"probe", "ssh_banner", "ssh_kex", "tls", "greeting", "ssl_request",
                "startup", "answer"}
Unread == [s \in Side |-> "none"]

\* Data sent before its side switched to encryption is clear content: a side
\* switches with its ChangeCipherSpec or NEWKEYS, in TLS 1.3 with the ServerHello.
Content(s) ==
    IF \/ {"ccs", "newkeys"} \cap passed[s] # {}
       \/ "hello13" \in passed["backend"]
    THEN "sealed" ELSE "clear"

writeNative(s, unit) == passed' = [passed EXCEPT ![s] = @ \cup {unit}]

\* Any error closes both connections.
Rejected ==
    /\ guard' = "rejected"
    /\ UNCHANGED <<ready, half, attempt, reader, passed>>

nativePeer(s) ==
    /\ guard \in Negotiating
    /\ s \notin ready
    /\ ready' = ready \cup {s}
    /\ UNCHANGED <<guard, half, attempt, reader, passed>>

\* The first byte chooses the protocol: 'S' of either side, 22 or 0 of the
\* client, anything else of a server that speaks first.
negotiateNativeEncryption(s, first) ==
    /\ guard = "probe"
    /\ s \in ready
    /\ CASE first = "ssh" -> guard' = "ssh_banner"
         [] first = "tls" /\ s = "client" -> guard' = "tls"
         [] first = "zero" /\ s = "client" -> guard' = "startup"
         [] first # "ssh" /\ s = "backend" -> guard' = "greeting"
         [] OTHER -> guard' = "rejected"
    /\ UNCHANGED <<ready, half, attempt, reader, passed>>

\* The greeting must offer protocol 4.1 and TLS; the client must answer with an
\* SSLRequest, never with a login.
negotiateNativeMySQL(unit) ==
    \/ /\ guard = "greeting" /\ "backend" \in ready
       /\ IF unit = "tls_greeting"
          THEN /\ guard' = "ssl_request"
               /\ writeNative("backend", unit)
               /\ UNCHANGED <<ready, half, attempt, reader>>
          ELSE Rejected
    \/ /\ guard = "ssl_request" /\ "client" \in ready
       /\ IF unit = "ssl_request"
          THEN /\ guard' = "tls"
               /\ writeNative("client", unit)
               /\ UNCHANGED <<ready, half, attempt, reader>>
          ELSE Rejected

negotiateNativePostgreSQL(unit) ==
    \/ /\ guard = "startup" /\ "client" \in ready
       /\ IF unit = "ssl_request"
          THEN /\ guard' = "answer"
               /\ writeNative("client", unit)
               /\ UNCHANGED <<ready, half, attempt, reader>>
          ELSE Rejected
    \/ /\ guard = "answer" /\ "backend" \in ready
       /\ IF unit = "S"
          THEN /\ guard' = "tls"
               /\ writeNative("backend", unit)
               /\ UNCHANGED <<ready, half, attempt, reader>>
          ELSE Rejected

\* One operation of nativeBoth: the other one runs concurrently.
nativeBoth(s, unit) ==
    /\ s \in ready /\ half[s] = "none"
    /\ half' = [half EXCEPT ![s] = unit]
    /\ UNCHANGED <<guard, ready, attempt, reader>>

validateNativeTLSClientHello(unit) == unit = "client_hello"

nativeTLSServerHello(unit) == unit \in {"hello12", "hello13", "retry"}

\* The ClientHello is forwarded by its operation, the ServerHello after both.
readNativeTLSHello(s, unit) ==
    /\ guard = "tls"
    /\ IF s = "client" /\ ~ validateNativeTLSClientHello(unit) THEN Rejected
       ELSE /\ nativeBoth(s, unit)
            /\ IF s = "client" THEN writeNative("client", unit) ELSE UNCHANGED passed

Reader(kind) == [kind |-> kind, encrypted |-> kind = "tls13", ccs |-> FALSE]

\* A second retry request is an error.
negotiateNativeTLS ==
    /\ guard = "tls" /\ \A s \in Side : half[s] # "none"
    /\ LET hello == half["backend"] IN
       IF ~ nativeTLSServerHello(hello) \/ (hello = "retry" /\ attempt = 1) THEN Rejected
       ELSE /\ writeNative("backend", hello)
            /\ half' = Unread
            /\ IF hello = "retry"
               THEN /\ attempt' = 1 /\ UNCHANGED <<guard, reader>>
               ELSE /\ guard' = "stream"
                    /\ reader' = [s \in Side |-> Reader(IF hello = "hello13" THEN "tls13" ELSE "tls12")]
                    /\ UNCHANGED attempt
            /\ UNCHANGED ready

\* A mutant of readNativeTLSRecord: a sniffed prefix is trusted.
SniffedPrefix(s, unit) == unit \in {"ccs", "handshake", "data", "alert"}

readNativeTLSRecord(s, unit) ==
    LET r == reader[s] IN
    CASE unit = "ccs" -> ~ r.ccs
      [] unit = "handshake" -> r.kind = "tls12"
      [] unit = "data" -> r.encrypted
      [] unit = "alert" -> r.kind = "tls12"
      [] OTHER -> FALSE

\* Every record of a TLS stream is checked.  In TLS 1.2 a handshake or data
\* record after ChangeCipherSpec is encrypted.
nativeTLSReader(s, unit) ==
    /\ guard = "stream" /\ reader[s].kind # "ssh"
    /\ IF ~ readNativeTLSRecord(s, unit) THEN Rejected
       ELSE /\ reader' = [reader EXCEPT ![s].ccs = @ \/ unit = "ccs",
                                        ![s].encrypted = @ \/ unit = "ccs"]
            /\ writeNative(s, IF unit = "data" THEN Content(s) ELSE unit)
            /\ UNCHANGED <<guard, ready, half, attempt>>

\* SSH: banners are forwarded by their operations, the two key exchange packets
\* after their algorithms agree.
sshBanner(s, unit) ==
    /\ guard = "ssh_banner"
    /\ IF unit # "ssh_banner" THEN Rejected
       ELSE nativeBoth(s, unit) /\ writeNative(s, unit)

bannersExchanged ==
    /\ guard = "ssh_banner" /\ \A s \in Side : half[s] # "none"
    /\ guard' = "ssh_kex"
    /\ half' = Unread
    /\ UNCHANGED <<ready, attempt, reader, passed>>

readKex(s, unit) ==
    /\ guard = "ssh_kex"
    /\ IF unit \notin {"kex", "odd_kex"} THEN Rejected
       ELSE nativeBoth(s, unit) /\ UNCHANGED passed

nativeSSHAlgorithms == \A s \in Side : half[s] = "kex"

negotiateNativeSSH ==
    /\ guard = "ssh_kex" /\ \A s \in Side : half[s] # "none"
    /\ IF ~ nativeSSHAlgorithms THEN Rejected
       ELSE /\ guard' = "stream"
            /\ passed' = [s \in Side |-> passed[s] \cup {"kex"}]
            /\ reader' = [s \in Side |-> Reader("ssh")]
            /\ half' = Unread
            /\ UNCHANGED <<ready, attempt>>

\* Each direction switches at its own NEWKEYS.
nativeSSHReader(s, unit) ==
    /\ guard = "stream" /\ reader[s].kind = "ssh"
    /\ IF reader[s].encrypted \/ unit \in {"kex_packet", "newkeys"}
       THEN /\ reader' = [reader EXCEPT ![s].encrypted = @ \/ unit = "newkeys"]
            /\ writeNative(s, IF unit \in {"kex_packet", "newkeys"} THEN unit
                              ELSE Content(s))
            /\ UNCHANGED <<guard, ready, half, attempt>>
       ELSE Rejected

\* The handshake deadline, and the end of a stream.
nativeHandshakeTimeout ==
    /\ guard \in Negotiating
    /\ Rejected

streamEnds ==
    /\ guard = "stream"
    /\ guard' = "closed"
    /\ UNCHANGED <<ready, half, attempt, reader, passed>>

Unit == {"ssh_banner", "kex", "odd_kex", "kex_packet", "newkeys", "client_hello", "hello12",
         "hello13", "retry", "tls_greeting", "ssl_request", "S", "ccs", "handshake", "data",
         "alert", "login"}

GuardInit ==
    /\ guard = "probe" /\ ready = {} /\ half = Unread /\ attempt = 0
    /\ reader = [s \in Side |-> Reader("none")]
    /\ passed = [s \in Side |-> {}]

GuardNext ==
    \/ \E s \in Side : nativePeer(s)
    \/ \E s \in Side, first \in {"ssh", "tls", "zero", "other"} : negotiateNativeEncryption(s, first)
    \/ \E unit \in Unit : negotiateNativeMySQL(unit)
    \/ \E unit \in Unit : negotiateNativePostgreSQL(unit)
    \/ \E s \in Side, unit \in Unit : readNativeTLSHello(s, unit)
    \/ negotiateNativeTLS
    \/ \E s \in Side, unit \in Unit : nativeTLSReader(s, unit)
    \/ \E s \in Side, unit \in Unit : sshBanner(s, unit)
    \/ bannersExchanged
    \/ \E s \in Side, unit \in Unit : readKex(s, unit)
    \/ negotiateNativeSSH
    \/ \E s \in Side, unit \in Unit : nativeSSHReader(s, unit)
    \/ nativeHandshakeTimeout
    \/ streamEnds

-----------------------------------------------------------------------------
\* native_encryption.go: "This guard allows only public protocol negotiation
\* before encrypted traffic".  No login and no data that its sender has not
\* encrypted crosses the guard in either direction, whichever protocol the two
\* sides speak, in whatever order they speak.
OnlyEncryptedCrosses ==
    \A s \in Side : {"clear", "login"} \cap passed[s] = {}
=============================================================================
