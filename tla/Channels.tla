------------------------------ MODULE Channels ------------------------------
(***************************************************************************)
(* The five OOXML transport channels (channels/*.py): where the sealed     *)
(* bytes of a module are placed, and how a reader finds them again from    *)
(* the record the manifest keeps.                                          *)
(*                                                                         *)
(* Contents: word/document.xml is a record of its visible text, the        *)
(* AlternateContent payload elements in document order and the figures     *)
(* (the rId each drawing embeds); docProps/custom.xml is a function from   *)
(* property to bytes; a payload, custom XML or media part is its bytes     *)
(* (base64 and the LSB codec are loss-free).  A digest is the value it is  *)
(* taken of: two different byte strings have different digests.            *)
(***************************************************************************)
EXTENDS OpcPackage, Sequences

CONSTANTS Redundancy,   \* replicas a stego_media module asks for
          Refused       \* what an operation that raises returns

ASSUME RedundancyAssumption == Redundancy \in Nat \ {0}

ChannelIds == {"package_part", "custom_xml", "metadata", "mce", "stego_media"}

\* Every embed returns the mutated package and the location it records.
Placed(pkg, parts, key) == [pkg |-> pkg, loc |-> [parts |-> parts, key |-> key]]

EmbedPackagePart(pkg, bytes, slot) ==
    LET name == NextPart(pkg, "payload")
    IN  Placed(AddRelationship(AddPart(pkg, name, bytes, "payload"),
                               ROOT, "payload", name),
               <<name>>, slot)

EmbedCustomXml(pkg, bytes, slot) ==
    LET name == NextPart(pkg, "item")
    IN  Placed(AddRelationship(AddPart(pkg, name, bytes, "xml"),
                               DOCUMENT, "customXml", name),
               <<name>>, slot)

\* The properties of docProps/custom.xml, none when the part is absent.
Properties(pkg) == IF HasPart(pkg, CUSTOM) THEN pkg.parts[CUSTOM] ELSE <<>>

\* Mutant: a property of that name is overwritten.
NeverCollides(pkg, slot) == FALSE

\* A property of that name already there is refused, not overwritten.
MetadataCollides(pkg, slot) == slot \in DOMAIN Properties(pkg)

EmbedMetadata(pkg, bytes, slot) ==
    LET props == Put(Properties(pkg), slot, bytes)
    IN  Placed(IF HasPart(pkg, CUSTOM)
               THEN SetPart(pkg, CUSTOM, props)
               ELSE AddRelationship(AddPart(pkg, CUSTOM, props, "props"),
                                    ROOT, "props", CUSTOM),
               <<CUSTOM>>, slot)

\* The block goes at the end of the body, after the blocks already there.
EmbedMce(pkg, bytes, slot) ==
    Placed([pkg EXCEPT !.parts[DOCUMENT].mce =
                Append(@, [slot |-> slot, bytes |-> bytes])],
           <<DOCUMENT>>, slot)

\* One carrier: a media part, its image edge, and a drawing that embeds it.
EmbedReplica(pkg, bytes) ==
    LET name == NextPart(pkg, "media")
        rid  == NextRelId(pkg, DOCUMENT)
        with == AddRelationship(AddPart(pkg, name, bytes, "png"),
                                DOCUMENT, "image", name)
    IN  [with EXCEPT !.parts[DOCUMENT].figs = Append(@, rid)]

\* The last carrier of a module; the ones before it are in the package.
EmbedStegoMedia(pkg, bytes, slot, carriers) ==
    Placed(EmbedReplica(pkg, bytes), Append(carriers, NextPart(pkg, "media")), slot)

-----------------------------------------------------------------------------
(* Extraction: the stored bytes of a record, or Refused when it raises.    *)

PartBytes(pkg, name) == IF HasPart(pkg, name) THEN pkg.parts[name] ELSE Refused

ExtractMetadata(pkg, r) ==
    IF r.loc.key \in DOMAIN Properties(pkg)
    THEN Properties(pkg)[r.loc.key]
    ELSE Refused

\* The first payload element carrying the record's slot.
ExtractMce(pkg, r) ==
    LET elems == pkg.parts[DOCUMENT].mce
        hits  == {i \in 1..Len(elems) : elems[i].slot = r.slot}
    IN  IF hits = {} THEN Refused
        ELSE elems[CHOOSE i \in hits : \A j \in hits : i <= j].bytes

\* The first carrier still there that decodes to the digest on record.
ExtractStegoMedia(pkg, r) ==
    IF \E i \in DOMAIN r.loc.parts : PartBytes(pkg, r.loc.parts[i]) = r.digest
    THEN r.digest
    ELSE Refused

ExtractStored(pkg, r) ==
    CASE r.channel \in {"package_part", "custom_xml"} -> PartBytes(pkg, r.loc.parts[1])
      [] r.channel = "metadata"    -> ExtractMetadata(pkg, r)
      [] r.channel = "mce"         -> ExtractMce(pkg, r)
      [] r.channel = "stego_media" -> ExtractStegoMedia(pkg, r)
=============================================================================
