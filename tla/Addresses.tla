----------------------------- MODULE Addresses ------------------------------
(***************************************************************************)
(* internal/gamespy/ip.go and the address part of binwire.go: a room's     *)
(* public address travels as a signed 32-bit number, of the four bytes in  *)
(* network order for a Wii (console 1) and reversed for a DS (console 0).  *)
(* Nothing in the number says which, so MatchPublicIP tries both.          *)
(***************************************************************************)
EXTENDS Integers

Byte == 0..255
IPv4 == Byte \X Byte \X Byte \X Byte
Consoles == {0, 1}

Mirror(ip) == <<ip[4], ip[3], ip[2], ip[1]>>

\* int32(binary.BigEndian.Uint32(ip))
Signed(ip) ==
  (IF ip[1] > 127 THEN ip[1] - 256 ELSE ip[1]) * 16777216
    + ip[2] * 65536 + ip[3] * 256 + ip[4]

SignedIP(ip, console) == Signed(IF console = 1 THEN ip ELSE Mirror(ip))

\* binary.BigEndian.PutUint32(uint32(int32(n)))
BigEndian(n) == <<(n \div 16777216) % 256, (n \div 65536) % 256, (n \div 256) % 256, n % 256>>

GetBytesFromIntSigned(n, console) ==
  IF console = 1 THEN BigEndian(n) ELSE Mirror(BigEndian(n))

(* An address as it is written in a field: a number, dotted, or neither. *)
Number(n) == [form |-> "number", n |-> n]
Dotted(ip) == [form |-> "dotted", ip |-> ip]

\* Faulty: a number is read in network order only.
FormsOfWii(address) ==
  CASE address.form = "dotted" -> {address.ip}
    [] address.form = "number" -> {BigEndian(address.n)}
    [] OTHER -> {}

Forms(address) ==
  CASE address.form = "dotted" -> {address.ip}
    [] address.form = "number" -> {BigEndian(address.n), Mirror(BigEndian(address.n))}
    [] OTHER -> {}

MatchPublicIP(stored, candidate) ==
  stored = candidate \/ Forms(stored) \cap Forms(candidate) # {}
=============================================================================
