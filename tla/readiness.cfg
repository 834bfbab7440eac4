SPECIFICATION Spec
CONSTANTS
  AnyPod = any
  Attachment = attachment
  Pods = {any, attachment}
  Names = {"own", "attachment"}
  Kinds <- KindsOf
  Attachments = {attachment}
INVARIANTS ReadyPassesPreflight ReadyIsTrue
