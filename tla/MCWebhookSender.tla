-------------------------- MODULE MCWebhookSender --------------------------
(***************************************************************************)
(* WebhookSender with two places to be sent to, one of them of a scheme    *)
(* the client does not speak, and two redirects.                           *)
(***************************************************************************)
EXTENDS WebhookSender

MCAddress(scheme, host) == [scheme |-> scheme, host |-> host]

MCAddresses ==
  {MCAddress("http", "app"), MCAddress("https", "app"),
   MCAddress("ftp", "app"), MCAddress("http", "")}

MCEvents == [EventID : {"", "paid"}, EndpointName : {"", "app", "other"}, body : BOOLEAN]

MCNames == {"", "app"}

=============================================================================
