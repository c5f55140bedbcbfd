SPECIFICATION Spec
CONSTANTS
  Media = {"audio", "video"}
  RequestTypes = {"INVITE", "INVITE_RESPONSE", "INVITE_ACK"}
  VoiceSets <- MCVoiceSets
VIEW View
INVARIANTS TypeOK RelayJoinsParties AnswerableOffer
PROPERTY KeepsOfferAnswer
