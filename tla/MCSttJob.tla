----------------------------- MODULE MCSttJob -----------------------------
EXTENDS SttJob

Recording(proto, base, header, speech) ==
  [proto |-> proto, base |-> base, header |-> header, speech |-> speech]

\* Recordings of one name, and one of each kind of payload and format; `minus` is
\* raw PCM whose first sample is -1.
Catalogue ==
  [mono   |-> Recording("remote", "a", Riff(8000, 8, 1), "mono"),
   twin   |-> Recording("remote", "a", Riff(8000, 16, 2), "two"),
   disk   |-> Recording("file", "b", Tagged, "mono"),
   wave   |-> Recording("file", "c", Riff(8000, 16, 1), "mono"),
   stream |-> Recording("none", "d", Riff(8000, 16, 1), "mono"),
   pcm    |-> Recording("remote", "e", Plain, "samples"),
   minus  |-> Recording("none", "d", Frame(3, 3, 3), "samples"),
   other  |-> Recording("none", "d", Frame(3, 1, 0), "two"),
   smb    |-> Recording("unknown", "f", Tagged, "mono")]

MCRecordings == DOMAIN Catalogue
MCProto == [r \in Recordings |-> Catalogue[r].proto]
MCBase == [r \in Recordings |-> Catalogue[r].base]
MCHeader == [r \in Recordings |-> Catalogue[r].header]
MCSpeech == [r \in Recordings |-> Catalogue[r].speech]

MCLeftovers == {"twin"}
NoLeftovers == {}

Config(use, type, spk, programs, reconnect) ==
  [use |-> use, type |-> type, spk |-> spk, decoder |-> programs, separator |-> programs,
   reconnect |-> reconnect]

\* Over ftps, with curl and as shipped, and with what each of them may lack.
MCConfigs ==
  {Config("true", "ftps", FALSE, TRUE, TRUE),
   Config("true", "ftps", TRUE, TRUE, FALSE),
   Config("false", "ftps", TRUE, TRUE, FALSE),
   Config("false", "ftps", FALSE, FALSE, FALSE),
   Config("unset", "ftps", FALSE, TRUE, FALSE)}

SftpConfigs == {Config("true", "sftp", FALSE, TRUE, TRUE)}
=============================================================================
