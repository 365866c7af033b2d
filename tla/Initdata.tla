------------------------------ MODULE Initdata ------------------------------
(***************************************************************************)
(* The digest of an initdata file (initdata.py, tdx/initdata.py).  A file  *)
(* is its lines, each a table header, a quoted algorithm key or something  *)
(* else.  Digests keep their widths: a digest is a sequence of as many     *)
(* cells as the algorithm has units of 16 bytes.                           *)
(***************************************************************************)
EXTENDS Integers, Sequences

LineKinds == {"table", "algorithm", "other"}
AlgorithmNames == {"", "sha256", "sha384", "sha512", "sha1"}
Line == [kind : LineKinds, name : AlgorithmNames]
NoInitdata == <<[kind |-> "none", name |-> ""]>>   \* no file was given

SUPPORTED_ALGORITHMS == {"sha256", "sha384", "sha512"}
Width(algorithm) ==
  CASE algorithm = "sha256" -> 2 [] algorithm = "sha384" -> 3 [] algorithm = "sha512" -> 4

\* The first line that settles the matter.
Settles(line) == line.kind \in {"table", "algorithm"}
SettledBy(toml) ==
  {i \in DOMAIN toml : Settles(toml[i]) /\ \A j \in 1..(i - 1) : ~Settles(toml[j])}

ParsedAlgorithm(toml) == toml[CHOOSE i \in SettledBy(toml) : TRUE].name
DeclaresAlgorithm(toml) ==
  \E i \in SettledBy(toml) : toml[i].kind = "algorithm" /\ toml[i].name \in SUPPORTED_ALGORITHMS

\* compute_digest, with the algorithm a platform requires; "" is any.
DigestDefined(toml, require) ==
  DeclaresAlgorithm(toml) /\ (require # "" => ParsedAlgorithm(toml) = require)
DigestOf(algorithm, toml) == [k \in 1..Width(algorithm) |-> <<algorithm, toml, k>>]
InitdataDigest(toml) == DigestOf(ParsedAlgorithm(toml), toml)

-----------------------------------------------------------------------------
(* What the file says, as TOML: a key of the top level is ahead of every   *)
(* table, and there is one of a name.                                      *)

TopLevel(toml) == {i \in DOMAIN toml : \A j \in 1..i : toml[j].kind # "table"}
AlgorithmKeys(toml) == {i \in TopLevel(toml) : toml[i].kind = "algorithm"}
WellFormed(toml) ==
  /\ \E i \in AlgorithmKeys(toml) : toml[i].name \in SUPPORTED_ALGORITHMS
  /\ \A i, j \in AlgorithmKeys(toml) : i = j
TheAlgorithm(toml) == toml[CHOOSE i \in AlgorithmKeys(toml) : TRUE].name
=============================================================================
