------------------------------- MODULE Address -------------------------------
(***************************************************************************)
(* src/linux/tcp.rs:31-108: from an ip::SocketAddr to the sockaddr that    *)
(* connect and bind hand to the kernel, and the family of the socket they  *)
(* hand it for.  What matters is where each byte ends up, so a byte is any *)
(* value, a word is the tuple of its bytes, most significant first, and    *)
(* the machine decides in which order a word lies in memory.               *)
(***************************************************************************)
EXTENDS Integers, Sequences, SequencesExt

CONSTANTS
    Byte,           \* any set
    LittleEndian    \* the byte order of the machine, TRUE or FALSE

U16 == Byte \X Byte

\* ip::SocketAddr; the bytes of an Ipv4Addr and the u16 of an Ipv6Addr stand
\* in the order in which the address is written.
Ipv4 == [version : {"Ipv4Addr"}, ip : Byte \X Byte \X Byte \X Byte, port : U16]
Ipv6 == [version : {"Ipv6Addr"}, ip : [1 .. 8 -> U16], port : U16]

\* The bytes of a word by ascending address.
InMemory(word) == IF LittleEndian THEN Reverse(word) ELSE word

\* htons: mem::to_be16 swaps on a little-endian machine only.
Htons(u) == IF LittleEndian THEN Reverse(u) ELSE u

\* ip_to_inaddr, Ipv4Addr: a is shifted by 0, d by 24.
SAddr(a) == <<a[4], a[3], a[2], a[1]>>

\* ip_to_inaddr, Ipv6Addr
S6Addr(groups) == [i \in 1 .. 8 |-> Htons(groups[i])]

\* create_socket: the family that is passed to socket(2)
CreateSocket(addr) ==
    IF addr.version = "Ipv4Addr" THEN "AF_INET" ELSE "AF_INET6"

\* addr_to_sockaddr: the fields as they lie in memory, and the length
AddrToSockaddr(addr) ==
    IF addr.version = "Ipv4Addr"
    THEN [family |-> "AF_INET", port |-> InMemory(Htons(addr.port)),
          addr |-> InMemory(SAddr(addr.ip)), len |-> "sockaddr_in"]
    ELSE [family |-> "AF_INET6", port |-> InMemory(Htons(addr.port)),
          addr |-> [i \in 1 .. 8 |-> InMemory(S6Addr(addr.ip)[i])],
          len |-> "sockaddr_in6"]

\* The kernel takes a sockaddr of the socket's family and of that family's
\* length, and reads port and address in network order, which is the order of
\* memory.
Accepts(family, storage) ==
    /\ storage.family = family
    /\ storage.len = IF family = "AF_INET" THEN "sockaddr_in"
                     ELSE "sockaddr_in6"

Reads(storage) ==
    [version |-> IF storage.family = "AF_INET" THEN "Ipv4Addr"
                 ELSE "Ipv6Addr",
     ip |-> storage.addr, port |-> storage.port]

-----------------------------------------------------------------------------

\* What a caller of connect or bind may ask for, and what the kernel then
\* connects to or listens on.  An IPv4 address is put together by shifts that
\* suit only a little-endian machine (tcp.rs:46-49), unlike ports and IPv6
\* addresses.
PeerIsAsAsked(addr) ==
    LittleEndian \/ addr.version = "Ipv6Addr" =>
        /\ Accepts(CreateSocket(addr), AddrToSockaddr(addr))
        /\ Reads(AddrToSockaddr(addr)) = addr
=============================================================================
