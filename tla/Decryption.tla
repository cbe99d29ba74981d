----------------------------- MODULE Decryption -----------------------------
(***************************************************************************)
(* What the sops decryptor makes of the files of a content. The files are  *)
(* encrypted alike, so that one stands for all: it has a format, the keys  *)
(* it is encrypted for, and the formats whose marker its text contains.    *)
(* Decrypted data is the same in every output format. Keys of cloud        *)
(* services, which sops' own key service asks for, are left out.           *)
(***************************************************************************)
CONSTANTS
  Content,      \* contents
  Format,       \* dotenv, INI, JSON, YAML
  Key,          \* entries of a secret, by what they hold
  Imported,     \* the keys whose name ends in .asc or .agekey
  Corrupt,      \* of these, the keys that cannot be imported
  Written,      \* the format a content is encrypted in: [Content -> Format]
  Recipients,   \* the keys it is encrypted for, none if it is not encrypted
  Markers,      \* formats whose marker it contains: [Content -> SUBSET Format]
  None          \* no format, no decryptor

ASSUME DecryptionAssumption ==
  /\ Imported \subseteq Key /\ Corrupt \subseteq Imported
  /\ Written \in [Content -> Format]
  /\ Recipients \in [Content -> SUBSET Key]
  /\ Markers \in [Content -> SUBSET Format]
  /\ \A x \in Content : Recipients[x] # {} => Written[x] \in Markers[x]
  /\ None \notin Format
  /\ \A keys \in SUBSET Key : keys # None

Provider == {"sops", "", "other"}

(* The key ring with its key service. *)
NewSopsDecryptor(keys) ==
  IF keys \cap Corrupt # {} THEN {} ELSE {keys \cap Imported}

(* GetGenerator makes a decryptor from the settings, None without keys:    *)
(* what it makes, or nothing if it fails.                                  *)
Decryptors(provider, keys) ==
  IF keys = {} THEN {None}
  ELSE IF provider \in {"sops", ""} THEN NewSopsDecryptor(keys) ELSE {}

(* The markers are a map: the first one Go happens to find. *)
DetectFormatFromMarkerBytes(x) ==
  IF Markers[x] = {} THEN {None} ELSE Markers[x]

(* The key service decrypts the data key with a pgp or age key it has.     *)
DataKeys(x, ring) == Recipients[x] \cap ring

(* A file in another format cannot be loaded. *)
SopsDecryptWithFormat(x, format, ring) ==
  IF format = Written[x] /\ DataKeys(x, ring) # {} THEN {"plain"} ELSE {}

(* The text Decrypt returns, if any, once the format is detected. *)
Decrypt(x, format, ring) ==
  IF format = None THEN {"input"} ELSE SopsDecryptWithFormat(x, format, ring)

DecryptDirectory(x, format, decryptor) ==
  IF decryptor = None THEN {"input"} ELSE Decrypt(x, format, decryptor)
=============================================================================
