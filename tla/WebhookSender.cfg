CONSTANTS
  MaxRedirects = 3
  Statuses = {200, 302, 307}
  Names <- MCNames
  Addresses <- MCAddresses
  Events <- MCEvents

SPECIFICATION Spec

INVARIANTS
  TypeOK
  DeliveryIsTruthful
  RequestsGoWhereLed

PROPERTIES
  SendEnds
  ImplementsSending
